---- MODULE Spec2Model ----
(***************************************************************************)
(* Model of the TI TDA4 latency server: the orchestration (main) server    *)
(* that persists a model, resolves calibration data, compiles in an        *)
(* isolated worker process, packages the artifacts and returns them or     *)
(* forwards them to the device server.                                     *)
(*                                                                         *)
(* Files are records [name, job, data]: job is the id of the job that      *)
(* wrote the file, so that a stale file of an earlier job can be told      *)
(* apart, and data tells a whole file from an empty or partly written one. *)
(***************************************************************************)
EXTENDS Integers, Sequences, FiniteSets, TLC

\* ------------------------------------------------------------------ bounds
MaxJobs == 2

JobIds == 1..MaxJobs

\* Threads of the executor the request handlers submit to.  The executor
\* belongs to the base class LatencyServer, which is not part of the
\* sources: one thread is an assumption about it, taken from the
\* specification (jobs are processed strictly sequentially).
ExecutorWorkers == 1

\* ------------------------------------------------------- program constants
BASIC == 0
ADVANCED == 1
NON_POWER_OF_2 == 0
INPUT_OUTPUT_FORMAT_CONVERSION == 3
FakeSamples == 2
BasicIterations == 1
AdvancedIterations == 10
DefaultIterations == 5

\* ---------------------------------------------------------- error messages
MsgNotZip == "Calibration data must be a zip file"
MsgBadZip == "BadZipFile"
MsgNoDir == "No such file or directory"
MsgNoCalDir == "directory with calibration data is not found"
MsgNoCalInput == "cannot find any calibration input ('*.pickle')"
MsgToolsPath == "tidl_tools_path must be set manually by user as a compiler option or as an env variable TIDL_TOOLS_PATH"
MsgNoProvider == "Compiler provider is not available."
MsgShape == "shape inference error"
MsgCompiler == "compiler error"
MsgEOF == "Ran out of input"
MsgTruncated == "pickle data was truncated"
MsgUnhandled == "Internal Server Error"
MsgNotDir == "must be path to a directory"
MsgExists == "already exists"

\* ------------------------------------------------------------------- files
\* A file: its name, the job that wrote it, and how much of its data was
\* written: all of it, none (a file that was created and got no data has 0
\* bytes) or a leading part.
File(n, j) == [name |-> n, job |-> j, data |-> "whole"]

EmptyFile(n, j) == [name |-> n, job |-> j, data |-> "empty"]

PartFile(n, j) == [name |-> n, job |-> j, data |-> "part"]

ModelName == "model.onnx"
SideFile == "subgraph_tidl_net.bin"

\* f"fake_calibration_data_{i}.pickle"
FakeName(i) == "fake_calibration_data_" \o ToString(i) \o ".pickle"

PickleNames == {"a.pickle", "b.pickle", FakeName(1), FakeName(2)}

\* glob("*.pickle") over a directory
Pickles(dir) == {f \in dir : f.name \in PickleNames}

\* Writing files into a directory replaces files of the same name.
WriteAll(dir, names, j) ==
    {f \in dir : f.name \notin names} \cup {File(n, j) : n \in names}

SeqRange(s) == {s[i] : i \in 1..Len(s)}

Prefix(s, k) == [i \in 1..k |-> s[i]]

\* ---------------------------------------------------------------- payloads
\* calibration_data of a request: absent, bytes that are no zip archive, or
\* an archive with an ordered member list.  badAt = 0 is an intact archive;
\* badAt = k > 0 is an archive whose k-th member is damaged: it passes
\* zipfile.is_zipfile and extraction raises at member k.
NoCal == [kind |-> "none", members |-> <<>>, badAt |-> 0]
NotZip == [kind |-> "bytes", members |-> <<>>, badAt |-> 0]
Zip(ms, k) == [kind |-> "zip", members |-> ms, badAt |-> k]

CalPayloads ==
    { NoCal, NotZip,
      Zip(<<"notes.txt">>, 0),
      Zip(<<"a.pickle", "b.pickle">>, 0),
      Zip(<<"a.pickle", "b.pickle">>, 2) }

ModelPayloads == {"valid", "garbage"}

NoReq == [kind |-> "none", model |-> "none", cal |-> NoCal]

\* The requests the server is sent.  A model that cannot be parsed fails the
\* request before its calibration data is looked at, so it is sent without.
Requests ==
    [kind : {"compile"}, model : {"valid"}, cal : CalPayloads]
    \cup [kind : {"compile", "measure"}, model : ModelPayloads, cal : {NoCal}]

\* ------------------------------------------------------------ configuration
\* TICalibrationCfg with its dataclass defaults.
TICalibrationCfg(level, iterations) ==
    [ accuracy_level |-> level,
      quantization_scale_type |-> NON_POWER_OF_2,
      high_resolution_optimization |-> FALSE,
      pre_batchnorm_fold |-> TRUE,
      activation_clipping |-> TRUE,
      weight_clipping |-> TRUE,
      bias_calibration |-> TRUE,
      calibration_iterations |-> iterations,
      add_data_convert_ops |-> INPUT_OUTPUT_FORMAT_CONVERSION,
      channel_wise_quantization |-> FALSE ]

NoCfg == TICalibrationCfg(BASIC, 0)

NoResp == [status |-> 0, reason |-> "", body |-> {}]

VARIABLES
    server,     \* "starting" | "serving": position of main()
    toolsPath,  \* environment: TIDL_TOOLS_PATH is set
    provider,   \* environment: TIDLCompilationProvider is available
    req,        \* req[j]: the request of job j
    pc,         \* pc[j]: position of the executor thread running job j
    wpc,        \* wpc[j]: position of the pool worker process of job j
    wres,       \* wres[j]: outcome of the worker's task
    cfg,        \* cfg[j]: calibration configuration chosen for job j
    frames,     \* frames[j]: the calibration_frames option of the compile
    fed,        \* fed[j]: sample files fed through the compiler session
    fs,         \* the working directory tree
    steps,      \* steps[j]: the steps job j has executed, in order
    devReq,     \* payloads sent to the device server, in order
    resp,       \* resp[j]: the response the caller of job j got
    call,       \* a library function called on its own: name, argument, result
    dev         \* the device server: its working directory and its request

\* The variables of the orchestration server.
mainVars == <<server, toolsPath, provider, req, pc, wpc, wres, cfg, frames,
              fed, fs, steps, devReq, resp>>

\* The variables the orchestration server's steps leave alone.
others == <<call, dev>>

vars == <<mainVars, others>>

NoCall == [fn |-> "none", arg |-> <<>>, out |-> <<>>]

\* The device server before it is started.
DevOff == [pc |-> "off"]

\* The working directory tree: wd, artDir, calDir and zip say whether the
\* directory (or artifacts.zip) exists; model holds the file model.onnx.
EmptyFs ==
    [ wd |-> FALSE, model |-> {},
      artDir |-> FALSE, art |-> {},
      calDir |-> FALSE, cal |-> {},
      zip |-> FALSE, zipFiles |-> {} ]

\* The tree an earlier run of the server left behind (its files carry job
\* id 0): that of a completed measure job.
LeftoverFs ==
    [ wd |-> TRUE, model |-> {File(ModelName, 0)},
      artDir |-> TRUE, art |-> {File(SideFile, 0), File(ModelName, 0)},
      calDir |-> TRUE, cal |-> {File(FakeName(1), 0), File(FakeName(2), 0)},
      zip |-> TRUE, zipFiles |-> {File(SideFile, 0), File(ModelName, 0)} ]

\* State after MainLatencyServer.__init__: nothing on disk is touched, so
\* the working directory is missing or is what an earlier run left.
MainInit ==
    /\ server = "starting"
    /\ toolsPath \in BOOLEAN
    /\ provider \in BOOLEAN
    /\ req = [j \in JobIds |-> NoReq]
    /\ pc = [j \in JobIds |-> "none"]
    /\ wpc = [j \in JobIds |-> "none"]
    /\ wres = [j \in JobIds |-> "none"]
    /\ cfg = [j \in JobIds |-> NoCfg]
    /\ frames = [j \in JobIds |-> 0]
    /\ fed = [j \in JobIds |-> {}]
    /\ fs \in {EmptyFs, LeftoverFs}
    /\ steps = [j \in JobIds |-> <<>>]
    /\ devReq = <<>>
    /\ resp = [j \in JobIds |-> NoResp]

Init ==
    /\ MainInit
    /\ call = NoCall
    /\ dev = DevOff

\* Jobs that hold an executor thread.  A /compile job at "respond" has left
\* the executor: its handler sends the file from the event loop.
Running ==
    {j \in JobIds : pc[j] \notin {"none", "queued", "respond", "done", "failed"}}

\* The job fails: the caller gets a 500 response with the given reason.
Fail(j, reason) ==
    /\ pc' = [pc EXCEPT ![j] = "failed"]
    /\ resp' = [resp EXCEPT ![j] = [status |-> 500, reason |-> reason, body |-> {}]]

\* Mutant of ExceptClause: the failure handler resets the working directory.
ExceptClauseCleanup(j, msg) ==
    /\ Fail(j, msg)
    /\ fs' = [ wd |-> TRUE, model |-> {}, artDir |-> TRUE, art |-> {},
               calDir |-> TRUE, cal |-> {}, zip |-> FALSE, zipFiles |-> {} ]

\* The except clause of _compile_model: HTTPInternalServerError with the
\* exception's text as reason; nothing on disk is touched.
ExceptClause(j, msg) ==
    /\ Fail(j, msg)
    /\ UNCHANGED fs

Step(j, name) == steps' = [steps EXCEPT ![j] = Append(@, name)]

\* main(): the server is constructed and starts serving.
StartServer ==
    /\ server = "starting"
    /\ server' = "serving"
    /\ UNCHANGED <<toolsPath, provider, others, req, pc, wpc, wres, cfg, frames, fed,
                   fs, steps, devReq, resp>>

\* A request arrives (/compile or measure) and is handed to the executor.
Submit(j, r) ==
    /\ server = "serving"
    /\ pc[j] = "none"
    /\ \A i \in JobIds : i < j => pc[i] # "none"
    /\ req' = [req EXCEPT ![j] = r]
    /\ pc' = [pc EXCEPT ![j] = "queued"]
    /\ UNCHANGED <<server, toolsPath, provider, others, wpc, wres, cfg, frames, fed,
                   fs, steps, devReq, resp>>

\* The executor takes the oldest queued job when a thread is free.
\* _compile_model_handler calls _compile_model directly; measure_latency
\* calls _cleanup_working_dir first.
Start(j) ==
    /\ pc[j] = "queued"
    /\ \A i \in JobIds : i < j => pc[i] # "queued"
    /\ Cardinality(Running) < ExecutorWorkers
    /\ pc' = [pc EXCEPT ![j] = IF req[j].kind = "measure" THEN "reset" ELSE "persist"]
    /\ UNCHANGED <<server, toolsPath, provider, others, req, wpc, wres, cfg, frames,
                   fed, fs, steps, devReq, resp>>

\* The tree with the working directory, an empty artifacts directory and an
\* empty calibration directory, and nothing else.
CleanFs ==
    [ wd |-> TRUE, model |-> {},
      artDir |-> TRUE, art |-> {},
      calDir |-> TRUE, cal |-> {},
      zip |-> FALSE, zipFiles |-> {} ]

\* shutil.rmtree of the working directory when it exists
Rmtree(f) == IF f.wd THEN EmptyFs ELSE f

\* The three mkdir calls
Mkdirs(f) == [f EXCEPT !.wd = TRUE, !.artDir = TRUE, !.calDir = TRUE]

\* Mutant of CleanupFs: the directories are made without the tree being
\* removed first.
CleanupFsKeep(f) == Mkdirs(f)

\* _cleanup_working_dir on a tree
CleanupFs(f) == Mkdirs(Rmtree(f))

CleanupWorkingDir(j) ==
    /\ pc[j] = "reset"
    /\ fs' = CleanupFs(fs)
    /\ Step(j, "reset")
    /\ pc' = [pc EXCEPT ![j] = "persist"]
    /\ UNCHANGED <<server, toolsPath, provider, others, req, wpc, wres, cfg, frames,
                   fed, devReq, resp>>

\* onnx.load_model_from_string and onnx.save, outside the try block.
PersistModel(j) ==
    /\ pc[j] = "persist"
    /\ Step(j, "persist")
    /\ IF req[j].model = "garbage" \/ ~fs.wd
       THEN /\ Fail(j, MsgUnhandled)
            /\ UNCHANGED fs
       ELSE /\ fs' = [fs EXCEPT !.model = {File(ModelName, j)}]
            /\ pc' = [pc EXCEPT ![j] = "calib"]
            /\ UNCHANGED resp
    /\ UNCHANGED <<server, toolsPath, provider, others, req, wpc, wres, cfg, frames,
                   fed, devReq>>

\* The calibration configuration _compile_model builds for a payload.
CalibrationCfgFor(cal) ==
    IF cal.kind = "none"
    THEN TICalibrationCfg(BASIC, BasicIterations)
    ELSE [TICalibrationCfg(ADVANCED, AdvancedIterations) EXCEPT
            !.pre_batchnorm_fold = TRUE,
            !.activation_clipping = TRUE,
            !.weight_clipping = TRUE,
            !.bias_calibration = TRUE]

\* What extraction leaves at the path of a damaged member.  A member whose
\* local header is damaged raises when it is opened, before its file is
\* created; a member whose data is damaged raises when the damage is read,
\* after its file was created and before any data reached it, or, for a
\* member read in several pieces, after the first pieces were written.
Leftovers == {"absent", "empty", "part"}

\* zf.extractall(dir): creates the directory when it is missing and writes
\* the members in order; a damaged member k raises after members 1..k-1
\* were written, left being what it leaves of member k.
ExtractAll(dir, cal, j, left) ==
    IF cal.badAt = 0
    THEN WriteAll(dir, SeqRange(cal.members), j)
    ELSE LET before == WriteAll(dir, SeqRange(Prefix(cal.members, cal.badAt - 1)), j)
             bad == cal.members[cal.badAt]
         IN  CASE left = "absent" -> before
               [] left = "empty" ->
                    {f \in before : f.name # bad} \cup {EmptyFile(bad, j)}
               [] left = "part" ->
                    {f \in before : f.name # bad} \cup {PartFile(bad, j)}

\* Mutant of IsZipFile: every payload is taken for an archive.
IsZipFileAlways(cal) == TRUE

\* zipfile.is_zipfile: the payload carries the archive's end record.
IsZipFile(cal) == cal.kind = "zip"

\* Calibration resolution of _compile_model (inside the try block).
ResolveCalibration(j) ==
    /\ pc[j] = "calib"
    /\ Step(j, "calib")
    /\ LET cal == req[j].cal IN
       IF cal.kind = "none"
       THEN \* generate_fake_calibration_data(n_output_files=2)
            IF fs.calDir
            THEN /\ fs' = [fs EXCEPT !.cal =
                             WriteAll(@, {FakeName(i) : i \in 1..FakeSamples}, j)]
                 /\ cfg' = [cfg EXCEPT ![j] = CalibrationCfgFor(cal)]
                 /\ pc' = [pc EXCEPT ![j] = "spawn"]
                 /\ UNCHANGED resp
            ELSE /\ ExceptClause(j, MsgNoDir)
                 /\ UNCHANGED cfg
       ELSE IF IsZipFile(cal)
       THEN /\ \E left \in Leftovers :
                 fs' = [fs EXCEPT !.calDir = TRUE,
                                  !.cal = ExtractAll(@, cal, j, left)]
            /\ IF cal.badAt = 0
               THEN /\ cfg' = [cfg EXCEPT ![j] = CalibrationCfgFor(cal)]
                    /\ pc' = [pc EXCEPT ![j] = "spawn"]
                    /\ UNCHANGED resp
               ELSE /\ Fail(j, MsgBadZip)
                    /\ UNCHANGED cfg
       ELSE /\ ExceptClause(j, MsgNotZip)
            /\ UNCHANGED cfg
    /\ UNCHANGED <<server, toolsPath, provider, others, req, wpc, wres, frames, fed,
                   devReq>>

\* _run_isolated_compilation: Pool(processes=1) forks the worker process and
\* pool.apply hands it the task and blocks until its result arrives.
RunIsolatedCompilation(j) ==
    /\ pc[j] = "spawn"
    /\ Step(j, "spawn")
    /\ pc' = [pc EXCEPT ![j] = "apply"]
    /\ wpc' = [wpc EXCEPT ![j] = "init"]
    /\ UNCHANGED <<server, toolsPath, provider, others, req, wres, cfg, frames, fed,
                   fs, devReq, resp>>

\* The worker's task raises: the exception is sent back to the parent.
Raise(j, msg) ==
    /\ wres' = [wres EXCEPT ![j] = msg]
    /\ wpc' = [wpc EXCEPT ![j] = "exit"]

\* The worker process dies without sending a result.
Die(j) ==
    /\ wres' = [wres EXCEPT ![j] = "lost"]
    /\ wpc' = [wpc EXCEPT ![j] = "dead"]

\* TICompiler.__init__ in the worker (_run_compilation).
CompilerInit(j) ==
    /\ wpc[j] = "init"
    /\ Step(j, "w_init")
    /\ IF ~toolsPath THEN Raise(j, MsgToolsPath)
       ELSE IF ~provider THEN Raise(j, MsgNoProvider)
       ELSE /\ wpc' = [wpc EXCEPT ![j] = "outdir"]
            /\ UNCHANGED wres
    /\ UNCHANGED <<server, toolsPath, provider, others, req, pc, cfg, frames, fed, fs,
                   devReq, resp>>

\* Mutant of OutputDirAfter: an existing directory is used as it is.
OutputDirKept(kind, files, force_overwrite) ==
    CASE kind = "file" -> [kind |-> "file", files |-> {}, error |-> MsgNotDir]
      [] kind = "dir" -> [kind |-> "dir", files |-> files, error |-> ""]
      [] kind = "missing" -> [kind |-> "dir", files |-> {}, error |-> ""]

\* TICompiler.compile, the output path: what is at the path ("missing",
\* "file" or "dir" with its files) after the check, and the error raised.
OutputDirAfter(kind, files, force_overwrite) ==
    CASE kind = "file" -> [kind |-> "file", files |-> {}, error |-> MsgNotDir]
      [] kind = "dir" /\ force_overwrite ->
            [kind |-> "dir", files |-> {}, error |-> ""]
      [] kind = "dir" /\ ~force_overwrite ->
            [kind |-> "dir", files |-> files, error |-> MsgExists]
      [] kind = "missing" -> [kind |-> "dir", files |-> {}, error |-> ""]

\* TICompiler.compile: the output directory is emptied or created
\* (force_overwrite is True).
PrepareOutputDir(j) ==
    /\ wpc[j] = "outdir"
    /\ Step(j, "w_outdir")
    /\ LET o == OutputDirAfter(IF fs.artDir THEN "dir" ELSE "missing",
                               fs.art, TRUE)
       IN  IF o.error # ""
           THEN Raise(j, o.error) /\ UNCHANGED fs
           ELSE /\ fs' = [fs EXCEPT !.wd = TRUE, !.artDir = TRUE, !.art = o.files]
                /\ wpc' = [wpc EXCEPT ![j] = "count"]
                /\ UNCHANGED wres
    /\ UNCHANGED <<server, toolsPath, provider, others, req, pc, cfg, frames,
                   fed, devReq, resp>>

\* Mutant of NoCalibrationInput: the zero-sample check is missing.
NoCalibrationInputUnchecked(dir) == FALSE

\* TICompiler.compile: calibration_frames == 0.
NoCalibrationInput(dir) == Cardinality(Pickles(dir)) = 0

\* TICompiler.compile: the calibration directory must exist and hold at
\* least one *.pickle file; their number is the calibration_frames option.
CountCalibrationFrames(j) ==
    /\ wpc[j] = "count"
    /\ Step(j, "w_count")
    /\ IF ~fs.calDir THEN /\ Raise(j, MsgNoCalDir)
                          /\ UNCHANGED frames
       ELSE IF NoCalibrationInput(fs.cal)
            THEN /\ Raise(j, MsgNoCalInput)
                 /\ UNCHANGED frames
            ELSE /\ frames' = [frames EXCEPT ![j] = Cardinality(Pickles(fs.cal))]
                 /\ wpc' = [wpc EXCEPT ![j] = "shape"]
                 /\ UNCHANGED wres
    /\ UNCHANGED <<server, toolsPath, provider, others, req, pc, cfg, fed, fs,
                   devReq, resp>>

\* Mutant of InferShapes: shape inference is skipped.
InferShapesSkipped(j) ==
    /\ wpc[j] = "shape"
    /\ wpc' = [wpc EXCEPT ![j] = "session"]
    /\ UNCHANGED <<server, toolsPath, provider, others, req, pc, wres, cfg, frames,
                   fed, fs, steps, devReq, resp>>

\* TICompiler.compile: shape inference in place on the model file
\* (disable_shape_inference is False); it succeeds or raises.
InferShapes(j) ==
    /\ wpc[j] = "shape"
    /\ Step(j, "w_shape")
    /\ \E ok \in BOOLEAN :
         IF ok THEN /\ wpc' = [wpc EXCEPT ![j] = "session"]
                    /\ UNCHANGED wres
         ELSE Raise(j, MsgShape)
    /\ UNCHANGED <<server, toolsPath, provider, others, req, pc, cfg, frames, fed, fs,
                   devReq, resp>>

\* Outcomes of a call into the native compiler.
NativeOutcomes == {"ok", "raise", "crash"}

\* TICompiler.compile: the compiler session is opened; the compiler writes
\* its side files into the artifacts folder.
OpenSession(j) ==
    /\ wpc[j] = "session"
    /\ Step(j, "w_session")
    /\ \E o \in NativeOutcomes :
         CASE o = "ok" -> /\ fs' = [fs EXCEPT !.art = WriteAll(@, {SideFile}, j)]
                          /\ wpc' = [wpc EXCEPT ![j] = "feed"]
                          /\ UNCHANGED wres
           [] o = "raise" -> Raise(j, MsgCompiler) /\ UNCHANGED fs
           [] o = "crash" -> Die(j) /\ UNCHANGED fs
    /\ UNCHANGED <<server, toolsPath, provider, others, req, pc, cfg, frames, fed,
                   devReq, resp>>

\* Mutant of Pending: the loop does not advance past the files it has fed.
PendingAll(dir, done) == Pickles(dir)

\* The files the loop over glob("*.pickle") has still to visit.
Pending(dir, done) == Pickles(dir) \ done

\* pickle.load on a sample file: the errors it can raise ("" when it
\* returns).  A file of 0 bytes raises EOFError; a file that ends early
\* raises UnpicklingError when it ends inside an item and EOFError when it
\* ends between two items.
PickleLoad(f) ==
    CASE f.data = "whole" -> {""}
      [] f.data = "empty" -> {MsgEOF}
      [] f.data = "part" -> {MsgTruncated, MsgEOF}

\* _run_calibration: for each *.pickle file of the directory the sample is
\* loaded and passed through the session once.
RunCalibration(j) ==
    /\ wpc[j] = "feed"
    /\ \E f \in Pending(fs.cal, fed[j]) :
         /\ Step(j, "w_feed")
         /\ \E e \in PickleLoad(f) :
            IF e # ""
            THEN Raise(j, e) /\ UNCHANGED fed
            ELSE \E o \in NativeOutcomes :
              CASE o = "ok" -> /\ fed' = [fed EXCEPT ![j] = @ \cup {f}]
                               /\ UNCHANGED <<wpc, wres>>
                [] o = "raise" -> Raise(j, MsgCompiler) /\ UNCHANGED fed
                [] o = "crash" -> Die(j) /\ UNCHANGED fed
    /\ UNCHANGED <<server, toolsPath, provider, others, req, pc, cfg, frames, fs,
                   devReq, resp>>

\* TICompiler.compile: after the calibration loop the model file is copied
\* into the output directory (copy_onnx_to_output_dir is True) and the task
\* returns.
CopyModel(j) ==
    /\ wpc[j] = "feed"
    /\ Pickles(fs.cal) \subseteq fed[j]
    /\ Step(j, "w_copy")
    /\ fs' = [fs EXCEPT !.art = {f \in @ : f.name # ModelName} \cup fs.model]
    /\ wres' = [wres EXCEPT ![j] = "ok"]
    /\ wpc' = [wpc EXCEPT ![j] = "exit"]
    /\ UNCHANGED <<server, toolsPath, provider, others, req, pc, cfg, frames, fed,
                   devReq, resp>>

\* multiprocessing.Pool replaces a worker process that died; the task the
\* dead worker held is not handed to the replacement.
PoolRespawn(j) ==
    /\ wpc[j] = "dead"
    /\ wpc' = [wpc EXCEPT ![j] = "idle"]
    /\ UNCHANGED <<server, toolsPath, provider, others, req, pc, wres, cfg, frames,
                   fed, fs, steps, devReq, resp>>

\* pool.apply returns the task's result or re-raises its exception; the
\* with-block then terminates the pool.  The except clause of _compile_model
\* turns the exception into HTTPInternalServerError(reason=str(exc)).
ApplyReturn(j) ==
    /\ pc[j] = "apply"
    /\ wpc[j] = "exit"
    /\ wpc' = [wpc EXCEPT ![j] = "none"]
    /\ IF wres[j] = "ok"
       THEN /\ pc' = [pc EXCEPT ![j] = "package"]
            /\ UNCHANGED <<resp, fs>>
       ELSE ExceptClause(j, wres[j])
    /\ UNCHANGED <<server, toolsPath, provider, others, req, wres, cfg, frames, fed,
                   steps, devReq>>

\* What a reader gets from artifacts.zip while make_archive of job j is
\* writing it: bytes that are no archive.
Incomplete(j) == {File("(incomplete archive)", j)}

\* shutil.make_archive of the artifacts directory (outside the try block)
\* begins: artifacts.zip is opened for writing, which empties an archive
\* an earlier job left at the path, or the call raises.
PackageArtifacts(j) ==
    /\ pc[j] = "package"
    /\ Step(j, "package")
    /\ \E ok \in BOOLEAN :
         IF ok
         THEN /\ fs' = [fs EXCEPT !.zip = TRUE, !.zipFiles = Incomplete(j)]
              /\ pc' = [pc EXCEPT ![j] = "archive"]
              /\ UNCHANGED resp
         ELSE /\ Fail(j, MsgUnhandled)
              /\ UNCHANGED fs
    /\ UNCHANGED <<server, toolsPath, provider, others, req, wpc, wres, cfg, frames,
                   fed, devReq>>

\* shutil.make_archive: the files of the artifacts directory and the
\* directory of the archive are written and the call returns.  A /compile
\* job returns the path to its handler; a measure job goes on in the same
\* thread.
MakeArchive(j) ==
    /\ pc[j] = "archive"
    /\ fs' = [fs EXCEPT !.zipFiles = fs.art]
    /\ pc' = [pc EXCEPT ![j] =
                IF req[j].kind = "measure" THEN "dispatch" ELSE "respond"]
    /\ UNCHANGED <<server, toolsPath, provider, others, req, wpc, wres, cfg, frames,
                   fed, steps, devReq, resp>>

\* _compile_model_handler: web.FileResponse(path, status=200).  The handler
\* runs on the event loop after the executor thread has finished the job;
\* the file is read when the response is sent.
Respond(j) ==
    /\ pc[j] = "respond"
    /\ Step(j, "return")
    /\ pc' = [pc EXCEPT ![j] = "done"]
    /\ resp' = [resp EXCEPT ![j] =
                  IF fs.zip
                  THEN [status |-> 200, reason |-> "OK", body |-> fs.zipFiles]
                  ELSE [status |-> 404, reason |-> "Not Found", body |-> {}]]
    /\ UNCHANGED <<server, toolsPath, provider, others, req, wpc, wres, cfg, frames,
                   fed, fs, devReq>>

\* measure_latency: the archive is read and handed to measure_latency_remote,
\* which sends it to the device server; the thread then waits for the
\* answer.
Dispatch(j) ==
    /\ pc[j] = "dispatch"
    /\ Step(j, "dispatch")
    /\ devReq' = Append(devReq, [job |-> j, body |-> fs.zipFiles])
    /\ pc' = [pc EXCEPT ![j] = "dispatch_wait"]
    /\ UNCHANGED <<server, toolsPath, provider, others, req, wpc, wres, cfg, frames,
                   fed, fs, resp>>

\* Mutant of DispatchReturn: a failed exchange with the device server is
\* tried again.
DispatchReturnRetry(j) ==
    /\ pc[j] = "dispatch_wait"
    /\ \E ok \in BOOLEAN :
         IF ok
         THEN /\ pc' = [pc EXCEPT ![j] = "done"]
              /\ resp' = [resp EXCEPT ![j] =
                    [status |-> 200, reason |-> "OK", body |-> {File("report", j)}]]
         ELSE /\ pc' = [pc EXCEPT ![j] = "dispatch"]
              /\ UNCHANGED resp
    /\ UNCHANGED <<server, toolsPath, provider, others, req, wpc, wres, cfg, frames,
                   fed, fs, steps, devReq>>

\* measure_latency: measure_latency_remote returns the report of the device
\* server, which is the result of the job, or raises.
DispatchReturn(j) ==
    /\ pc[j] = "dispatch_wait"
    /\ \E ok \in BOOLEAN :
         IF ok
         THEN /\ pc' = [pc EXCEPT ![j] = "done"]
              /\ resp' = [resp EXCEPT ![j] =
                    [status |-> 200, reason |-> "OK", body |-> {File("report", j)}]]
         ELSE Fail(j, MsgUnhandled)
    /\ UNCHANGED <<server, toolsPath, provider, others, req, wpc, wres, cfg, frames,
                   fed, fs, steps, devReq>>

Next ==
    \/ StartServer
    \/ \E j \in JobIds, r \in Requests : Submit(j, r)
    \/ \E j \in JobIds : Start(j)
    \/ \E j \in JobIds : CleanupWorkingDir(j)
    \/ \E j \in JobIds : PersistModel(j)
    \/ \E j \in JobIds : ResolveCalibration(j)
    \/ \E j \in JobIds : RunIsolatedCompilation(j)
    \/ \E j \in JobIds : CompilerInit(j)
    \/ \E j \in JobIds : PrepareOutputDir(j)
    \/ \E j \in JobIds : CountCalibrationFrames(j)
    \/ \E j \in JobIds : InferShapes(j)
    \/ \E j \in JobIds : OpenSession(j)
    \/ \E j \in JobIds : RunCalibration(j)
    \/ \E j \in JobIds : CopyModel(j)
    \/ \E j \in JobIds : PoolRespawn(j)
    \/ \E j \in JobIds : ApplyReturn(j)
    \/ \E j \in JobIds : PackageArtifacts(j)
    \/ \E j \in JobIds : MakeArchive(j)
    \/ \E j \in JobIds : Respond(j)
    \/ \E j \in JobIds : Dispatch(j)
    \/ \E j \in JobIds : DispatchReturn(j)

Spec == Init /\ [][Next]_vars

\* The steps of job j the server itself takes: its executor thread, its
\* pool and worker process, and the handler's response.
JobStep(j) ==
    \/ Start(j)
    \/ CleanupWorkingDir(j)
    \/ PersistModel(j)
    \/ ResolveCalibration(j)
    \/ RunIsolatedCompilation(j)
    \/ CompilerInit(j)
    \/ PrepareOutputDir(j)
    \/ CountCalibrationFrames(j)
    \/ InferShapes(j)
    \/ OpenSession(j)
    \/ RunCalibration(j)
    \/ CopyModel(j)
    \/ PoolRespawn(j)
    \/ ApplyReturn(j)
    \/ PackageArtifacts(j)
    \/ MakeArchive(j)
    \/ Respond(j)
    \/ Dispatch(j)
    \/ DispatchReturn(j)

\* Every thread and process that can take a step eventually takes one.
FairSpec == Spec /\ \A j \in JobIds : WF_vars(JobStep(j))

\* -------------------------------------------------------- float arithmetic
\* Python floats are IEEE 754 doubles: 53 significant bits, results rounded
\* to nearest, ties to even.  A natural number is a sequence of bits, most
\* significant first and without leading zeros; a float is [s, m, e] with
\* sign s, 53-bit significand m and value s * m * 2^e (zero: s = 0,
\* m = <<>>, e = 0).  Sums, differences and quotients of bit sequences are
\* computed limb by limb.
Precision == 53

\* Bits of a limb; divisors are below 2^20.
LimbBits == 10

\* Extra quotient bits of a division, so that rounding sees the remainder.
GuardBits == 24

Max(a, b) == IF a >= b THEN a ELSE b

Min(a, b) == IF a <= b THEN a ELSE b

Zeros(k) == [i \in 1..k |-> 0]

PadTo(b, n) == Zeros(n - Len(b)) \o b

\* The w-bit sequence of n < 2^w
BitsOf(n, w) == [i \in 1..w |-> (n \div 2^(w - i)) % 2]

Strip(b) ==
    IF \A i \in 1..Len(b) : b[i] = 0 THEN <<>>
    ELSE SubSeq(b, CHOOSE i \in 1..Len(b) :
                      b[i] = 1 /\ \A k \in 1..(i - 1) : b[k] = 0, Len(b))

\* The bits of an integer 0 <= n < 2^30
Bits(n) == Strip(BitsOf(n, 30))

\* The integer a short bit sequence stands for
RECURSIVE Value(_)
Value(b) ==
    IF Len(b) = 0 THEN 0
    ELSE IF Len(b) = 1 THEN b[1]
    ELSE LET h == Len(b) \div 2
         IN  Value(SubSeq(b, 1, h)) * 2^(Len(b) - h) + Value(SubSeq(b, h + 1, Len(b)))

\* A bit sequence as n limbs, and back
ToLimbs(b, n) ==
    LET p == PadTo(b, n * LimbBits)
    IN  [c \in 1..n |-> Value(SubSeq(p, (c - 1) * LimbBits + 1, c * LimbBits))]

FromLimbs(l) ==
    Strip([i \in 1..(Len(l) * LimbBits) |->
              (l[((i - 1) \div LimbBits) + 1] \div 2^(LimbBits - 1 - ((i - 1) % LimbBits))) % 2])

LimbCount(a, b) == (Max(Len(a), Len(b)) + LimbBits - 1) \div LimbBits

\* a < b
Less(a, b) ==
    IF Len(a) # Len(b) THEN Len(a) < Len(b)
    ELSE \E i \in 1..Len(a) : a[i] < b[i] /\ \A k \in 1..(i - 1) : a[k] = b[k]

RECURSIVE AddCarry(_, _, _, _)
AddCarry(a, b, i, c) ==
    IF i = 0 THEN <<c>>
    ELSE Append(AddCarry(a, b, i - 1, (a[i] + b[i] + c) \div 2^LimbBits),
                (a[i] + b[i] + c) % 2^LimbBits)

\* a + b
AddBits(a, b) ==
    LET n == LimbCount(a, b)
    IN  FromLimbs(AddCarry(ToLimbs(a, n), ToLimbs(b, n), n, 0))

RECURSIVE SubBorrow(_, _, _, _)
SubBorrow(a, b, i, c) ==
    IF i = 0 THEN <<>>
    ELSE Append(SubBorrow(a, b, i - 1, IF a[i] - b[i] - c < 0 THEN 1 ELSE 0),
                (a[i] - b[i] - c + 2^LimbBits) % 2^LimbBits)

\* a - b for a >= b
SubBits(a, b) ==
    LET n == LimbCount(a, b)
    IN  FromLimbs(SubBorrow(ToLimbs(a, n), ToLimbs(b, n), n, 0))

\* Long division of the first i limbs of a by the integer d: quotient limbs
\* and remainder
RECURSIVE DivLimbs(_, _, _)
DivLimbs(a, i, d) ==
    IF i = 0 THEN [q |-> <<>>, r |-> 0]
    ELSE LET p == DivLimbs(a, i - 1, d)
             t == p.r * 2^LimbBits + a[i]
         IN  [q |-> Append(p.q, t \div d), r |-> t % d]

FZero == [s |-> 0, m |-> <<>>, e |-> 0]

\* The float nearest to s * (b + f) * 2^e, where the fraction f in [0, 1) is
\* nonzero iff sticky; ties go to the even significand.
Round(s, b, sticky, e) ==
    LET L == Len(b)
    IN  IF L = 0 THEN FZero
        ELSE IF L <= Precision
        THEN [s |-> s, m |-> b \o Zeros(Precision - L), e |-> e - (Precision - L)]
        ELSE LET q == SubSeq(b, 1, Precision)
                 st == sticky \/ \E i \in (Precision + 2)..L : b[i] = 1
                 up == b[Precision + 1] = 1 /\ (st \/ q[Precision] = 1)
                 q2 == IF up THEN AddBits(q, <<1>>) ELSE q
             IN  IF Len(q2) > Precision
                 THEN [s |-> s, m |-> SubSeq(q2, 1, Precision), e |-> e + (L - Precision) + 1]
                 ELSE [s |-> s, m |-> q2, e |-> e + (L - Precision)]

\* float(n) of an integer |n| < 2^30
FromInt(n) ==
    IF n = 0 THEN FZero
    ELSE Round(IF n < 0 THEN -1 ELSE 1, Bits(IF n < 0 THEN -n ELSE n), FALSE, 0)

FNeg(x) == [x EXCEPT !.s = -x.s]

\* x + y
FAdd(x, y) ==
    IF x.s = 0 THEN y
    ELSE IF y.s = 0 THEN x
    ELSE LET e == Min(x.e, y.e)
             a == x.m \o Zeros(x.e - e)
             b == y.m \o Zeros(y.e - e)
         IN  IF x.s = y.s THEN Round(x.s, AddBits(a, b), FALSE, e)
             ELSE IF a = b THEN FZero
             ELSE IF Less(b, a) THEN Round(x.s, SubBits(a, b), FALSE, e)
             ELSE Round(y.s, SubBits(b, a), FALSE, e)

\* x - y
FSub(x, y) == FAdd(x, FNeg(y))

\* x / d for an integer 0 < d < 2^20
FDiv(x, d) ==
    IF x.s = 0 THEN FZero
    ELSE LET b == x.m \o Zeros(GuardBits)
             n == LimbCount(b, b)
             r == DivLimbs(ToLimbs(b, n), n, d)
         IN  Round(x.s, FromLimbs(r.q), r.r # 0, x.e - GuardBits)

\* a * n for a bit sequence n
RECURSIVE MulBits(_, _)
MulBits(a, n) ==
    IF n = <<>> THEN <<>>
    ELSE LET rest == MulBits(a, SubSeq(n, 1, Len(n) - 1))
             twice == IF rest = <<>> THEN <<>> ELSE rest \o <<0>>
         IN  IF n[Len(n)] = 1 THEN AddBits(twice, a) ELSE twice

\* x * n for an integer 0 < n < 2^20
FMul(x, n) ==
    IF x.s = 0 THEN FZero ELSE Round(x.s, MulBits(x.m, Bits(n)), FALSE, x.e)

\* ----------------------------------------------------------- TI statistics
MsgKeyError == "KeyError"

\* 10**6: nanoseconds per millisecond
NsPerMs == 1000000

\* k.endswith(suffix)
EndsWith(k, suffix) ==
    Len(k) >= Len(suffix) /\ SubSeq(k, Len(k) - Len(suffix) + 1, Len(k)) = suffix

\* Mutant of ProcStartKeys: only one subgraph is discovered.
ProcStartKeysFirst(raw) ==
    LET keys == {k \in DOMAIN raw : EndsWith(k, "proc_start")}
    IN  IF keys = {} THEN {} ELSE {CHOOSE k \in keys : TRUE}

\* The keys of the raw counters that end with "proc_start"
ProcStartKeys(raw) == {k \in DOMAIN raw : EndsWith(k, "proc_start")}

\* k[12:-11]
SubgraphId(k) == SubSeq(k, 13, Len(k) - 11)

\* f"ts:subgraph_{subgraph_id}"
SubgraphPrefix(id) == "ts:subgraph_" \o id

Stages == {"_proc", "_copy_in", "_copy_out"}

BaseKeys ==
    {"ts:run_start", "ts:run_end", "ddr:read_start", "ddr:read_end",
     "ddr:write_start", "ddr:write_end"}

\* The keys collect_ti_stats reads
KeysRead(raw) ==
    BaseKeys \cup
    {SubgraphPrefix(SubgraphId(k)) \o stage \o edge :
        k \in ProcStartKeys(raw), stage \in Stages, edge \in {"_start", "_end"}}

\* raw_stats[f"{prefix}{stage}_end"] - raw_stats[f"{prefix}{stage}_start"]
Elapsed(raw, id, stage) ==
    raw[SubgraphPrefix(id) \o stage \o "_end"] - raw[SubgraphPrefix(id) \o stage \o "_start"]

\* stats[...] += ... for every discovered key, starting from 0.0
RECURSIVE Accumulate(_, _, _)
Accumulate(raw, keys, stage) ==
    IF keys = {} THEN FZero
    ELSE LET k == CHOOSE x \in keys : TRUE
         IN  FAdd(Accumulate(raw, keys \ {k}, stage),
                  FromInt(Elapsed(raw, SubgraphId(k), stage)))

\* v / 10**6
ToMs(v) == FDiv(v, NsPerMs)

\* stats["total_ms"] - stats["NPU_copy_input_ms"] - stats["NPU_copy_output_ms"]
TotalExecutionMs(total, copyIn, copyOut) == FSub(FSub(total, copyIn), copyOut)

\* Mutant of CpuExecutionMs: the copies are not taken off the total.
CpuExecutionMsOfTotal(stats) == FSub(stats.total_ms, stats.NPU_execution_ms)

\* stats["total_execution_ms"] - stats["NPU_execution_ms"]
CpuExecutionMs(stats) == FSub(stats.total_execution_ms, stats.NPU_execution_ms)

\* TIOnnxruntimeModel.collect_ti_stats on the raw counters of the session
CollectTiStats(raw) ==
    IF ~(KeysRead(raw) \subseteq DOMAIN raw)
    THEN [ok |-> FALSE, error |-> MsgKeyError]
    ELSE LET keys == ProcStartKeys(raw)
             total == ToMs(FromInt(raw["ts:run_end"] - raw["ts:run_start"]))
             copyIn == ToMs(Accumulate(raw, keys, "_copy_in"))
             copyOut == ToMs(Accumulate(raw, keys, "_copy_out"))
             stats ==
                 [ total_ms |-> total,
                   ddr_read_ms |-> ToMs(FromInt(raw["ddr:read_end"] - raw["ddr:read_start"])),
                   ddr_write_ms |-> ToMs(FromInt(raw["ddr:write_end"] - raw["ddr:write_start"])),
                   NPU_execution_ms |-> ToMs(Accumulate(raw, keys, "_proc")),
                   NPU_copy_input_ms |-> copyIn,
                   NPU_copy_output_ms |-> copyOut,
                   total_execution_ms |-> TotalExecutionMs(total, copyIn, copyOut) ]
         IN  [ ok |-> TRUE, error |-> "",
               total_ms |-> stats.total_ms,
               ddr_read_ms |-> stats.ddr_read_ms,
               ddr_write_ms |-> stats.ddr_write_ms,
               NPU_execution_ms |-> stats.NPU_execution_ms,
               NPU_copy_input_ms |-> stats.NPU_copy_input_ms,
               NPU_copy_output_ms |-> stats.NPU_copy_output_ms,
               total_execution_ms |-> stats.total_execution_ms,
               CPU_execution_ms |-> CpuExecutionMs(stats) ]

\* ------------------------------------------------------------ model loading
MsgAmbiguous == "Artifacts directory must contain only one onnx file."
MsgBadPath == "model_path must be path to onnx file or artifacts directory"

TIDL == "TIDLExecutionProvider"
CPU == "CPUExecutionProvider"

OnnxNames == {ModelName, "extra.onnx"}

\* glob("*.onnx") over a directory
OnnxFiles(dir) == {f \in dir : f.name \in OnnxNames}

\* A path of the file system: a directory with its files, a regular file,
\* or a path where nothing exists.
Dir(files) == [kind |-> "dir", files |-> files]
RegularFile(f) == [kind |-> "file", files |-> {f}]
NoPath == [kind |-> "missing", files |-> {}]

LoadError(msg) == [ok |-> FALSE, error |-> msg, providers |-> <<>>, model |-> {}]

Loaded(providers, model) ==
    [ok |-> TRUE, error |-> "", providers |-> providers, model |-> model]

\* Mutant of TIOnnxruntimeModel: with several model files in the directory
\* the first one is taken.
TIOnnxruntimeModelFirst(path) ==
    IF path.kind = "dir"
    THEN IF OnnxFiles(path.files) = {}
         THEN LoadError(MsgAmbiguous)
         ELSE Loaded(<<TIDL, CPU>>, {CHOOSE f \in OnnxFiles(path.files) : TRUE})
    ELSE IF path.kind = "file"
    THEN Loaded(<<CPU>>, path.files)
    ELSE LoadError(MsgBadPath)

\* TIOnnxruntimeModel.__init__: the providers and the model file chosen for
\* a path.
TIOnnxruntimeModel(path) ==
    IF path.kind = "dir"
    THEN IF Cardinality(OnnxFiles(path.files)) # 1
         THEN LoadError(MsgAmbiguous)
         ELSE Loaded(<<TIDL, CPU>>, OnnxFiles(path.files))
    ELSE IF path.kind = "file"
    THEN Loaded(<<CPU>>, path.files)
    ELSE LoadError(MsgBadPath)

\* --------------------------------------------- library functions on their own
\* The functions of the package called directly, each on inputs drawn from a
\* bounded set; call holds the call made.
UnitInit ==
    /\ MainInit
    /\ toolsPath /\ provider /\ fs = EmptyFs
    /\ call = NoCall
    /\ dev = DevOff

\* Files a model path can hold.
PathFiles ==
    {File(ModelName, 1), File("extra.onnx", 1), File(SideFile, 1), File("notes.txt", 1)}

Paths ==
    {Dir(d) : d \in SUBSET PathFiles} \cup {RegularFile(f) : f \in PathFiles}
        \cup {NoPath}

CallTIOnnxruntimeModel ==
    /\ call = NoCall
    /\ \E p \in Paths :
         call' = [fn |-> "TIOnnxruntimeModel", arg |-> p, out |-> TIOnnxruntimeModel(p)]
    /\ UNCHANGED <<mainVars, dev>>

\* Raw counters of a session, in nanoseconds: the run and the DDR counters,
\* and for every subgraph the start and the end of its three stages.
Ids == {"0", "1"}

StageTimes == [proc : {1787023, 4000000}, copyIn : {0, 1422270}, copyOut : {1800364}]

Totals == {9069303, 12000000}

DdrWrites == {0, 7000}

RunStart == 1000

\* The counters as pairs <<key, value>>
CounterPairs(total, write, subs) ==
    { <<"ts:run_start", RunStart>>, <<"ts:run_end", RunStart + total>>,
      <<"ddr:read_start", 0>>, <<"ddr:read_end", 5000>>,
      <<"ddr:write_start", 0>>, <<"ddr:write_end", write>> }
    \cup UNION {
      { <<SubgraphPrefix(id) \o "_copy_in_start", RunStart>>,
        <<SubgraphPrefix(id) \o "_copy_in_end", RunStart + subs[id].copyIn>>,
        <<SubgraphPrefix(id) \o "_proc_start", RunStart + subs[id].copyIn>>,
        <<SubgraphPrefix(id) \o "_proc_end", RunStart + subs[id].copyIn + subs[id].proc>>,
        <<SubgraphPrefix(id) \o "_copy_out_start", RunStart + subs[id].copyIn + subs[id].proc>>,
        <<SubgraphPrefix(id) \o "_copy_out_end",
          RunStart + subs[id].copyIn + subs[id].proc + subs[id].copyOut>> }
      : id \in DOMAIN subs }

RawCounters(total, write, subs) ==
    LET pairs == CounterPairs(total, write, subs)
    IN  [k \in {p[1] : p \in pairs} |-> (CHOOSE p \in pairs : p[1] = k)[2]]

\* Counters without the end of the run
Truncated(raw) == [k \in DOMAIN raw \ {"ts:run_end"} |-> raw[k]]

RawInputs ==
    LET full == UNION {{RawCounters(t, w, subs) : t \in Totals, w \in DdrWrites,
                           subs \in [ids -> StageTimes]} : ids \in SUBSET Ids}
    IN  full \cup {Truncated(RawCounters(9069303, 0, <<>>))}

CallCollectTiStats ==
    /\ call = NoCall
    /\ \E raw \in RawInputs :
         call' = [fn |-> "collect_ti_stats", arg |-> raw, out |-> CollectTiStats(raw)]
    /\ UNCHANGED <<mainVars, dev>>

\* ------------------------------------------------ synthetic calibration data
\* Number of sample files asked for, at most, and a number of samples
\* past what an 8-bit input can hold
MaxSamples == 2
ManySamples == 256

\* TensorProto element types and the numpy type of each
FLOAT == 1
UINT8 == 2
INT64 == 7
BOOL == 9

OnnxDtypeToNpDtype(t) ==
    IF t = FLOAT THEN "float32"
    ELSE IF t = UINT8 THEN "uint8"
    ELSE IF t = INT64 THEN "int64"
    ELSE "bool"

\* A dimension of a declared shape: a value, or a name (dim_param)
DimValueOf(n) == [kind |-> "value", value |-> n, param |-> ""]
DimParam(name) == [kind |-> "param", value |-> 0, param |-> name]

\* d.dim_value: 0 for a dimension that has a name instead of a value
DimValue(d) == IF d.kind = "value" THEN d.value ELSE 0

GraphInput(name, type, shape) == [name |-> name, elem_type |-> type, shape |-> shape]

\* Number of elements of an array of the given shape
RECURSIVE Size(_)
Size(shape) == IF shape = <<>> THEN 1 ELSE Head(shape) * Size(Tail(shape))

\* NumPy is not pinned by the package.  Given a Python integer that the
\* element type cannot hold, np.full of a NumPy 1 build stores it reduced
\* to the width of the type, and np.full of a NumPy 2 build raises
\* OverflowError.
NumpyBuilds == {"wraps", "checks"}

MsgOverflow == "Python integer out of bounds for uint8"

\* np.full raises for the fill value v
Raises(v, dtype, numpy) ==
    numpy = "checks" /\ dtype = "uint8" /\ v \notin 0..255

\* The scalar np.full stores for the integer v in an array of type dtype
\* when it does not raise: a bool array holds True (1) for every v but 0,
\* a uint8 array v modulo 256; int64 and float32 hold a small v itself.
Cast(v, dtype) ==
    IF dtype = "bool" THEN (IF v = 0 THEN 0 ELSE 1)
    ELSE IF dtype = "uint8" THEN v % 256
    ELSE v

\* np.full(fill_value=v, shape=shape, dtype=dtype)
Full(v, shape, dtype) ==
    [dtype |-> dtype, shape |-> shape,
     data |-> [k \in 1..Size(shape) |-> Cast(v, dtype)]]

\* fake_inputs of one sample
FakeInputs(inputs, i) ==
    [name \in {g.name : g \in SeqRange(inputs)} |->
        LET g == CHOOSE x \in SeqRange(inputs) : x.name = name
        IN  Full(i, [k \in DOMAIN g.shape |-> DimValue(g.shape[k])],
                 OnnxDtypeToNpDtype(g.elem_type))]

\* Mutant of SampleIndices: the samples are numbered from 0.
SampleIndicesFromZero(n) == [k \in 1..n |-> k - 1]

\* range(1, n_output_files + 1), in order
SampleIndices(n) == [k \in 1..n |-> k]

\* The files the loop of generate_fake_calibration_data writes for the
\* indices at the positions lo to hi, by name; a file written replaces a
\* file of the same name written before it.
RECURSIVE WriteSamples(_, _, _, _)
WriteSamples(inputs, indices, lo, hi) ==
    IF lo > hi THEN [f \in {} |-> <<>>]
    ELSE IF lo = hi
    THEN FakeName(indices[lo]) :> FakeInputs(inputs, indices[lo])
    ELSE LET mid == (lo + hi) \div 2
         IN  WriteSamples(inputs, indices, mid + 1, hi)
                 @@ WriteSamples(inputs, indices, lo, mid)

\* generate_fake_calibration_data: the files of output_dir afterwards, by
\* name, and the error raised.  The tensors of a sample are built before
\* its file is opened, so the loop ends before the file of the first index
\* for which np.full raises.
GenerateFakeCalibrationData(inputs, dir, n, numpy) ==
    LET indices == SampleIndices(n)
        stops == {p \in DOMAIN indices :
                    \E g \in SeqRange(inputs) :
                        Raises(indices[p], OnnxDtypeToNpDtype(g.elem_type), numpy)}
        done == IF stops = {} THEN Len(indices)
                ELSE (CHOOSE p \in stops : \A q \in stops : p <= q) - 1
    IN  [files |-> WriteSamples(inputs, indices, 1, done) @@ dir,
         error |-> IF stops = {} THEN "" ELSE MsgOverflow]

\* Declared inputs of the models the generator is called on.
Shapes == {<<DimValueOf(1), DimValueOf(2)>>, <<DimParam("N"), DimValueOf(2)>>}

Graphs ==
    {<<GraphInput("x", t, sh)>> : t \in {FLOAT, UINT8, INT64, BOOL}, sh \in Shapes}
    \cup {<<GraphInput("x", FLOAT, <<DimValueOf(2), DimValueOf(3)>>),
            GraphInput("mask", BOOL, <<DimValueOf(2)>>)>>}

\* Output directories: empty, or holding a file already.
EmptyDir == [f \in {} |-> <<>>]
OutputDirs == {EmptyDir, [f \in {"a.pickle"} |-> <<>>]}

CallGenerateFakeCalibrationData ==
    /\ call = NoCall
    /\ \E g \in Graphs, d \in OutputDirs, np \in NumpyBuilds,
          n \in (0..MaxSamples) \cup {ManySamples} :
         call' = [fn |-> "generate_fake_calibration_data",
                  arg |-> [inputs |-> g, dir |-> d, n |-> n, numpy |-> np],
                  out |-> GenerateFakeCalibrationData(g, d, n, np)]
    /\ UNCHANGED <<mainVars, dev>>

\* ------------------------------------------------- calibration option map
\* int(b) of a bool
BoolToInt(b) == IF b THEN 1 ELSE 0

\* The fields of TICalibrationCfg that are bools
BoolFields ==
    {"high_resolution_optimization", "pre_batchnorm_fold", "activation_clipping",
     "weight_clipping", "bias_calibration", "channel_wise_quantization"}

\* The entries of the dict as_cfg_dict builds: <<key, field read>>
CfgEntries ==
    { <<"accuracy_level", "accuracy_level">>,
      <<"advanced_options:quantization_scale_type", "quantization_scale_type">>,
      <<"advanced_options:high_resolution_optimization", "high_resolution_optimization">>,
      <<"advanced_options:activation_clipping", "activation_clipping">>,
      <<"advanced_options:weight_clipping", "weight_clipping">>,
      <<"advanced_options:bias_calibration", "bias_calibration">>,
      <<"advanced_options:calibration_iterations", "calibration_iterations">>,
      <<"advanced_options:add_data_convert_ops", "add_data_convert_ops">>,
      <<"advanced_options:channel_wise_quantization", "channel_wise_quantization">> }

\* TICalibrationCfg.as_cfg_dict
AsCfgDict(c) ==
    [k \in {e[1] : e \in CfgEntries} |->
        LET f == (CHOOSE e \in CfgEntries : e[1] = k)[2]
        IN  IF f \in BoolFields THEN BoolToInt(c[f]) ELSE c[f]]

\* Calibration configurations as_cfg_dict is called on.
CalibrationCfgs ==
    {[TICalibrationCfg(level, it) EXCEPT
         !.pre_batchnorm_fold = fold,
         !.high_resolution_optimization = hi,
         !.channel_wise_quantization = hi,
         !.bias_calibration = fold] :
       level \in {BASIC, ADVANCED},
       it \in {BasicIterations, AdvancedIterations, DefaultIterations},
       fold \in BOOLEAN, hi \in BOOLEAN}

CallAsCfgDict ==
    /\ call = NoCall
    /\ \E c \in CalibrationCfgs :
         call' = [fn |-> "as_cfg_dict", arg |-> c, out |-> AsCfgDict(c)]
    /\ UNCHANGED <<mainVars, dev>>

\* ------------------------------------------- model and precision option maps
\* An Optional[...] field: None (of a list field, of a number field), or a
\* value.
Absent == [some |-> FALSE, value |-> <<>>]
NoFactor == [some |-> FALSE, value |-> 0]
Present(v) == [some |-> TRUE, value |-> v]

\* sep.join(value)
RECURSIVE Join(_, _)
Join(value, sep) ==
    IF value = <<>> THEN ""
    ELSE IF Len(value) = 1 THEN value[1]
    ELSE value[1] \o sep \o Join(Tail(value), sep)

\* Mutant of SafeJoin: None is formatted like any other value.
SafeJoinNoneText(opt) == IF ~opt.some THEN "None" ELSE Join(opt.value, ",")

\* _TICfgAsDictMixin._safe_join with its default separator
SafeJoin(opt) == IF ~opt.some THEN "" ELSE Join(opt.value, ",")

\* TIModelCfg.as_cfg_dict
ModelAsCfgDict(c) ==
    [k \in {"model_type", "deny_list:layer_type", "deny_list:layer_name",
            "allow_list:layer_name"} |->
        CASE k = "model_type" -> IF c.is_od_model THEN "OD" ELSE ""
          [] k = "deny_list:layer_type" -> SafeJoin(c.deny_list_layer_type)
          [] k = "deny_list:layer_name" -> SafeJoin(c.deny_list_layer_name)
          [] k = "allow_list:layer_name" -> SafeJoin(c.allow_list_layer_name)]

\* TIPrecisionCfg.as_cfg_dict
PrecisionAsCfgDict(c) ==
    [k \in {"tensor_bits", "advanced_options:output_feature_16bit_names_list",
            "advanced_options:params_16bit_names_list",
            "advanced_options:mixed_precision_factor"} |->
        CASE k = "tensor_bits" -> c.tensor_bits
          [] k = "advanced_options:output_feature_16bit_names_list" ->
                SafeJoin(c.output_feature_16bit_names_list)
          [] k = "advanced_options:params_16bit_names_list" ->
                SafeJoin(c.params_16bit_names_list)
          [] k = "advanced_options:mixed_precision_factor" ->
                IF ~c.mixed_precision_factor.some THEN -1
                ELSE c.mixed_precision_factor.value]

\* Optional name lists and mixed-precision factors the option maps are
\* built from.
NameLists ==
    { Absent, Present(<<>>), Present(<<"conv1">>),
      Present(<<"conv1", "relu2">>), Present(<<"relu2", "conv1">>) }

Factors == {NoFactor, Present(-1), Present(0), Present(2)}

CallModelAsCfgDict ==
    /\ call = NoCall
    /\ \E od \in BOOLEAN, a \in NameLists, b \in NameLists,
          c \in {Absent, Present(<<>>), Present(<<"conv1", "relu2">>)} :
         LET m == [is_od_model |-> od, deny_list_layer_type |-> a,
                   deny_list_layer_name |-> b, allow_list_layer_name |-> c]
         IN  call' = [fn |-> "TIModelCfg.as_cfg_dict", arg |-> m,
                      out |-> ModelAsCfgDict(m)]
    /\ UNCHANGED <<mainVars, dev>>

CallPrecisionAsCfgDict ==
    /\ call = NoCall
    /\ \E bits \in {8, 16, 32}, a \in NameLists,
          b \in {Absent, Present(<<>>), Present(<<"relu2", "conv1">>)},
          f \in Factors :
         LET p == [tensor_bits |-> bits,
                   output_feature_16bit_names_list |-> a,
                   params_16bit_names_list |-> b,
                   mixed_precision_factor |-> f]
         IN  call' = [fn |-> "TIPrecisionCfg.as_cfg_dict", arg |-> p,
                      out |-> PrecisionAsCfgDict(p)]
    /\ UNCHANGED <<mainVars, dev>>

\* ------------------------------------------------------ remote compile client
\* A response of the compilation server, and the output path of the client:
\* NoFile when nothing is there.
HttpResponse(status, reason, content) ==
    [status_code |-> status, reason |-> reason, content |-> content]

NoFile == "<no file>"

Responses ==
    { HttpResponse(200, "OK", "artifacts-zip"),
      HttpResponse(201, "Created", "artifacts-zip"),
      HttpResponse(204, "No Content", ""),
      HttpResponse(400, MsgNotZip, ""),
      HttpResponse(404, "Not Found", ""),
      HttpResponse(500, MsgUnhandled, "<html>") }

\* What the server answers to the first and to a second post of the same
\* request.
Answers == {<<r1, r2>> : r1 \in Responses, r2 \in Responses}

\* response.status_code == 200
StatusOk(status) == status = 200

\* requests.post: one more request reaches the server, which answers it
\* with its next answer.
Post(answers, sent) == [response |-> answers[sent + 1], sent |-> sent + 1]

\* What main leaves behind for the response of its last post: the number
\* of requests posted, the file at the output path and the error raised.
Conclude(p, before) ==
    IF StatusOk(p.response.status_code)
    THEN [posted |-> p.sent, file |-> p.response.content, error |-> ""]
    ELSE [posted |-> p.sent, file |-> before,
          error |-> "Expected status code is 200, got "
                    \o ToString(p.response.status_code)
                    \o "; reason: " \o p.response.reason]

\* Mutant of CompileModelMain: a refused request is posted once more.
CompileModelMainRetry(answers, before) ==
    LET p == Post(answers, 0) IN
    IF StatusOk(p.response.status_code)
    THEN Conclude(p, before)
    ELSE Conclude(Post(answers, p.sent), before)

\* main of compile_model.py, for a model and a calibration archive it could
\* read: one post, then the response is written out or refused.
CompileModelMain(answers, before) == Conclude(Post(answers, 0), before)

CallCompileModelMain ==
    /\ call = NoCall
    /\ \E a \in Answers, f \in {NoFile, "old-zip"} :
         call' = [fn |-> "compile_model.main",
                  arg |-> [answers |-> a, file |-> f],
                  out |-> CompileModelMain(a, f)]
    /\ UNCHANGED <<mainVars, dev>>

\* ------------------------------------------------------------ compiler CLI
\* Calibration directories on disk while compile_onnx_model runs: the one
\* the user names and the temporary one made next to the model.
UserDir == "calib"
TmpDir == "model_dir/tmp"

\* The directory the model file lies in.
ModelDir == "model_dir"

\* The directory each of them lies in.
ParentDir == [d \in {UserDir, TmpDir} |->
                IF d = TmpDir THEN ModelDir ELSE "base"]

\* Output directories the CLI is given: one that holds no calibration
\* directory, the directory of the model, and the one the user's
\* calibration directory lies in.
CliOutputDirs == {"out", ModelDir, "base"}

\* tempfile.TemporaryDirectory removes its directory when the object is
\* collected or the interpreter exits without cleanup() having been called.
ImplicitCleanup(dirs) == dirs \ {TmpDir}

\* The steps compile_onnx_model has planned for a calibration directory
\* argument, in order.
CliSteps(calibration_data_dir) ==
    LET fake == calibration_data_dir = ""
    IN  (IF fake THEN <<"mkdtemp", "generate">> ELSE <<>>)
        \o <<"init", "compile">>
        \o (IF fake THEN <<"cleanup">> ELSE <<>>)

\* The calibration directories on disk after one step.  TICompiler.compile
\* begins with shutil.rmtree of the output directory when it exists, and
\* what lies in it goes with it.
CliStep(step, dirs, output_dir) ==
    CASE step = "mkdtemp" -> dirs \cup {TmpDir}
      [] step = "compile" -> {d \in dirs : ParentDir[d] # output_dir}
      [] step = "cleanup" -> dirs \ {TmpDir}
      [] step = "finalize" -> ImplicitCleanup(dirs)
      [] OTHER -> dirs

\* How a step ends, dirs being the directories after it: "ok", "raise" or
\* "crash" (the native compiler kills the process).  The argument raises
\* names the step that fails by itself.  TICompiler.compile raises when the
\* calibration directory is not there after the output directory is made,
\* and when the model file went with the output directory: shape inference
\* and the session then find no model to read.
CliOutcome(step, dirs, a) ==
    LET cal == IF a.calibration_data_dir = "" THEN TmpDir
               ELSE a.calibration_data_dir
    IN  IF step = "compile" /\ cal \notin dirs THEN "raise"
        ELSE IF step = "compile" /\ a.output_dir = ModelDir THEN "raise"
        ELSE IF step = "compile" /\ a.raises = "crash" THEN "crash"
        ELSE IF step = a.raises THEN "raise"
        ELSE "ok"

\* The run from the steps todo on: a raised exception ends the run with the
\* finalizer of the temporary directory; a killed process runs nothing more.
RECURSIVE CliTrace(_, _, _)
CliTrace(todo, dirs, a) ==
    IF todo = <<>> THEN <<>>
    ELSE LET d == CliStep(Head(todo), dirs, a.output_dir)
             o == CliOutcome(Head(todo), d, a)
             here == <<[step |-> Head(todo), dirs |-> d, outcome |-> o]>>
         IN  CASE o = "ok" -> here \o CliTrace(Tail(todo), d, a)
               [] o = "crash" -> here
               [] o = "raise" ->
                    IF a.calibration_data_dir = ""
                    THEN here \o <<[step |-> "finalize",
                                    dirs |-> CliStep("finalize", d, a.output_dir),
                                    outcome |-> "ok"]>>
                    ELSE here

\* compile_onnx_model: the directories on disk after each step and the
\* directory handed to the compiler.
CompileOnnxModel(a) ==
    [trace |-> CliTrace(CliSteps(a.calibration_data_dir), a.before, a),
     calibration_dir |-> IF a.calibration_data_dir = "" THEN TmpDir
                         ELSE a.calibration_data_dir]

CallCompileOnnxModel ==
    /\ call = NoCall
    /\ \E c \in {"", UserDir},
          o \in CliOutputDirs,
          r \in {"none", "generate", "init", "compile", "crash"},
          b \in {{}, {UserDir}} :
         /\ r = "generate" => c = ""
         /\ LET a == [calibration_data_dir |-> c, output_dir |-> o,
                      raises |-> r, before |-> b]
            IN  call' = [fn |-> "compile_onnx_model", arg |-> a,
                         out |-> CompileOnnxModel(a)]
    /\ UNCHANGED <<mainVars, dev>>

\* TICompiler.compile called on an output path that is missing, a file or a
\* directory, with and without force_overwrite.
CallPrepareOutputDir ==
    /\ call = NoCall
    /\ \E k \in {"missing", "file", "dir"},
          fl \in {{}, {File(SideFile, 0), File(ModelName, 0)}},
          force \in BOOLEAN :
         /\ k # "dir" => fl = {}
         /\ call' = [fn |-> "TICompiler.compile.output_dir",
                     arg |-> [kind |-> k, files |-> fl, force_overwrite |-> force],
                     out |-> OutputDirAfter(k, fl, force)]
    /\ UNCHANGED <<mainVars, dev>>

UnitNext ==
    \/ CallTIOnnxruntimeModel
    \/ CallCollectTiStats
    \/ CallGenerateFakeCalibrationData
    \/ CallAsCfgDict
    \/ CallCompileModelMain
    \/ CallCompileOnnxModel
    \/ CallModelAsCfgDict
    \/ CallPrecisionAsCfgDict
    \/ CallPrepareOutputDir

UnitSpec == UnitInit /\ [][UnitNext]_vars

\* ------------------------------------------------------------ device server
\* Bounds of the device server's configuration and of its requests.
MaxWarmup == 1
MaxRepeat == 2
MaxMeasures == 2

\* Values of the option number, and leading dimensions of a model's first
\* input.
Numbers == {1, 2}
BatchSizes == {1, 2}

\* acc += a[i] for i = from .. to, in order
RECURSIVE SumFrom(_, _, _, _)
SumFrom(acc, a, from, to) ==
    IF from > to THEN acc ELSE SumFrom(FAdd(acc, a[from]), a, from + 1, to)

\* One of the eight running sums of numpy's unrolled summation loop
RECURSIVE Lane(_, _, _, _)
Lane(acc, a, i, last) ==
    IF i > last THEN acc ELSE Lane(FAdd(acc, a[i]), a, i + 8, last)

\* numpy's add.reduce over a contiguous float64 array of at most 128
\* elements: a plain loop below 8 elements, 8 running sums otherwise.
PairwiseSum(a) ==
    LET n == Len(a) IN
    IF n < 8 THEN SumFrom(FZero, a, 1, n)
    ELSE LET full == n - (n % 8)
             r == [k \in 1..8 |-> Lane(a[k], a, k + 8, full)]
             res == FAdd(FAdd(FAdd(r[1], r[2]), FAdd(r[3], r[4])),
                         FAdd(FAdd(r[5], r[6]), FAdd(r[7], r[8])))
         IN  SumFrom(res, a, full + 1, n)

\* np.mean(times)
Mean(a) == FDiv(PairwiseSum(a), Len(a))

RECURSIVE SumInts(_)
SumInts(q) == IF q = <<>> THEN 0 ELSE Head(q) + SumInts(Tail(q))

\* Times an inference call can take, in microseconds: a warmup call runs
\* cold, a later call takes one of two times.  ClockStartsUs are the
\* readings of the clock, in microseconds, at which a latency computation
\* can begin.
ColdDurationsUs == {40000}

DurationsUs == {2500, 15100}

ClockStartsUs == {100000000}

\* time.perf_counter(): the clock as a float number of seconds
PerfCounter(us) == FDiv(FromInt(us), 1000000)

\* benchmark_run: (time.perf_counter() - t_0) * 1000 for a call that begins
\* at reading r[1] and ends at reading r[2]
BenchmarkRun(r) == FMul(FSub(PerfCounter(r[2]), PerfCounter(r[1])), 1000)

\* The readings of consecutive calls that begin at start and take durs
Readings(start, durs) ==
    [i \in DOMAIN durs |->
        LET t == start + SumInts(SubSeq(durs, 1, i - 1))
        IN  <<t, t + durs[i]>>]

\* The calls kept in times when the measured calls are over, as the
\* readings around each, and np.mean of the list times then is
TimesLists ==
    {Readings(c + w * cold, durs) :
        c \in ClockStartsUs, w \in 0..MaxWarmup, cold \in ColdDurationsUs,
        durs \in UNION {[1..(r * n) -> DurationsUs] :
                           r \in 1..MaxRepeat, n \in Numbers}}

\* The result of benchmark_run for each pair of readings in those lists
RunMs == [r \in UNION {SeqRange(ts) : ts \in TimesLists} |-> BenchmarkRun(r)]

MeanOf == [ts \in TimesLists |-> Mean([i \in DOMAIN ts |-> RunMs[ts[i]]])]

\* Mutant of Latency: the mean is not divided by the batch size.
LatencyPerCall(times, batch) == MeanOf[times]

\* float(np.mean(times)) / ti_model.batch_size
Latency(times, batch) == FDiv(MeanOf[times], batch)

\* Mutant of OrtOverheadMs: a negative overhead is reported as zero.
OrtOverheadMsClamped(latency, stats) ==
    LET d == FSub(latency, stats.total_ms) IN IF d.s = -1 THEN FZero ELSE d

\* latency - stats["total_ms"]
OrtOverheadMs(latency, stats) == FSub(latency, stats.total_ms)

\* The keys collect_ti_stats fills in
StatKeys ==
    {"total_ms", "ddr_read_ms", "ddr_write_ms", "NPU_execution_ms",
     "NPU_copy_input_ms", "NPU_copy_output_ms", "total_execution_ms",
     "CPU_execution_ms"}

\* The mapping measure_latency returns: the statistics with two more keys.
Report(stats, latency) ==
    [k \in StatKeys \cup {"latency", "ORT_overhead_ms"} |->
        IF k = "latency" THEN latency
        ELSE IF k = "ORT_overhead_ms" THEN OrtOverheadMs(latency, stats)
        ELSE stats[k]]

NoReport == <<>>

\* What get_TI_benchmark_data of a session can return: the counters of a
\* run with the subgraphs the accelerator took, of a run it took no subgraph
\* of, or counters that lack a key.  A session without the accelerator
\* provider has no subgraph.
OneSubgraph == [id \in {"0"} |-> [proc |-> 1787023, copyIn |-> 1422270, copyOut |-> 1800364]]

CpuSessionCounters ==
    {RawCounters(12000000, 7000, <<>>), Truncated(RawCounters(9069303, 0, <<>>))}

TidlSessionCounters ==
    CpuSessionCounters \cup {RawCounters(9069303, 0, OneSubgraph)}

SessionCounters(providers) ==
    IF TIDL \in SeqRange(providers) THEN TidlSessionCounters ELSE CpuSessionCounters

\* collect_ti_stats on each of these counters
SessionStats ==
    [raw \in TidlSessionCounters |-> CollectTiStats(raw)]

\* A measure request of the device server: the payload and the leading
\* dimension of the first input the model in it declares.  The model bytes
\* are a model the runtime can load.
DevRequests ==
    [ body : { NotZip,
               Zip(<<ModelName, SideFile>>, 0),
               Zip(<<SideFile>>, 0),
               Zip(<<ModelName, "extra.onnx">>, 0),
               Zip(<<ModelName, SideFile>>, 1) },
      batch : BatchSizes ]

NoDevRequest == [body |-> NoCal, batch |-> 1]

\* State after DeviceLatencyServer.__init__: the working directory is
\* missing or holds what an earlier run left.
DevInit ==
    dev \in
      [ loop : {"running"}, pc : {"idle"},
        warmup : 0..MaxWarmup, repeat : 1..MaxRepeat, number : Numbers,
        rebootAfterMeasure : BOOLEAN, rebootOnExit : {FALSE},
        timer : {"none"},
        clock : {0},
        wd : {NoPath, Dir({File(ModelName, 0), File("extra.onnx", 0)})},
        request : {NoDevRequest},
        model : {LoadError("")},
        calls : {0}, hist : {<<>>}, times : {<<>>},
        latency : {FZero}, report : {NoReport}, error : {""},
        served : {0} ]

\* measure_latency is called with the payload of a request, one call at a
\* time.  The method does not look at the serving loop: a call that was
\* waiting for the executor thread when the loop ended is run all the same.
DevReceive ==
    /\ dev.pc \in {"idle", "done", "failed"}
    /\ dev.served < MaxMeasures
    /\ \E r \in DevRequests :
         dev' = [dev EXCEPT !.pc = "create", !.request = r, !.served = @ + 1,
                            !.model = LoadError(""), !.calls = 0, !.hist = <<>>,
                            !.times = <<>>, !.latency = FZero,
                            !.report = NoReport, !.error = ""]
    /\ UNCHANGED <<mainVars, call>>

\* Mutant of WorkingDirReset: what the directory holds is left in place.
WorkingDirKept(wd) == IF wd.kind = "dir" THEN wd.files ELSE {}

\* create_ti_model: rmtree of the working directory if it exists, then
\* mkdir; the files it holds afterwards.
WorkingDirReset(wd) == {}

\* The path create_ti_model hands to TIOnnxruntimeModel: the directory the
\* archive is extracted into, or the file model.onnx the payload is written
\* to; base are the files of the working directory before.
ModelPath(body, j, base, left) ==
    IF IsZipFile(body)
    THEN Dir(ExtractAll(base, body, j, left))
    ELSE RegularFile(File(ModelName, j))

\* The files of the working directory after the payload is extracted or
\* written.
WorkingDirAfter(body, j, base, left) ==
    IF IsZipFile(body)
    THEN ExtractAll(base, body, j, left)
    ELSE WriteAll(base, {ModelName}, j)

\* create_ti_model
CreateTiModel ==
    /\ dev.pc = "create"
    /\ \E left \in Leftovers :
       LET body == dev.request.body
           base == WorkingDirReset(dev.wd)
           path == ModelPath(body, dev.served, base, left)
           after == Dir(WorkingDirAfter(body, dev.served, base, left))
           model == TIOnnxruntimeModel(path)
       IN  IF IsZipFile(body) /\ body.badAt # 0
           THEN dev' = [dev EXCEPT !.wd = after, !.pc = "failed", !.error = MsgBadZip]
           ELSE IF ~model.ok
           THEN dev' = [dev EXCEPT !.wd = after, !.pc = "failed",
                                   !.error = model.error]
           ELSE \E c \in ClockStartsUs :
                  dev' = [dev EXCEPT !.wd = after, !.pc = "run",
                                     !.model = model, !.clock = c]
    /\ UNCHANGED <<mainVars, call>>

\* The reading of the clock when the next call begins: where the last call
\* ended.
Now(d) == IF d.hist = <<>> THEN d.clock ELSE d.hist[Len(d.hist)][2]

\* compute_model_latency: a warmup call, its duration is dropped.
WarmupRun ==
    /\ dev.pc = "run"
    /\ dev.calls < dev.warmup
    /\ \E d \in ColdDurationsUs :
         dev' = [dev EXCEPT !.calls = @ + 1,
                            !.hist = Append(@, <<Now(dev), Now(dev) + d>>)]
    /\ UNCHANGED <<mainVars, call>>

\* compute_model_latency: a call whose duration is kept in times.
MeasuredRun ==
    /\ dev.pc = "run"
    /\ dev.calls >= dev.warmup
    /\ Len(dev.times) < dev.repeat * dev.number
    /\ \E d \in DurationsUs :
         dev' = [dev EXCEPT !.calls = @ + 1,
                            !.hist = Append(@, <<Now(dev), Now(dev) + d>>),
                            !.times = Append(@, <<Now(dev), Now(dev) + d>>)]
    /\ UNCHANGED <<mainVars, call>>

\* compute_model_latency returns.
MeanLatency ==
    /\ dev.pc = "run"
    /\ dev.calls >= dev.warmup
    /\ Len(dev.times) = dev.repeat * dev.number
    /\ dev' = [dev EXCEPT !.pc = "stats",
                          !.latency = Latency(dev.times, dev.request.batch)]
    /\ UNCHANGED <<mainVars, call>>

\* measure_latency after the latency is computed: the statistics of the
\* session and the two added keys.  The durations compute_model_latency
\* held are gone once it has returned.
CollectStats ==
    /\ dev.pc = "stats"
    /\ \E raw \in SessionCounters(dev.model.providers) :
         LET stats == SessionStats[raw] IN
         IF stats.ok
         THEN dev' = [dev EXCEPT !.pc = "collected",
                                 !.calls = 0, !.hist = <<>>, !.times = <<>>,
                                 !.report = Report(stats, dev.latency)]
         ELSE dev' = [dev EXCEPT !.pc = "failed", !.error = stats.error,
                                 !.calls = 0, !.hist = <<>>, !.times = <<>>]
    /\ UNCHANGED <<mainVars, call>>

\* measure_latency with reboot_after_measure: self._reboot_on_exit = True,
\* before the exit is scheduled and before the report is returned.
SetRebootOnExit ==
    /\ dev.pc = "collected"
    /\ dev.rebootAfterMeasure
    /\ dev' = [dev EXCEPT !.pc = "shutdown", !.rebootOnExit = TRUE]
    /\ UNCHANGED <<mainVars, call>>

MsgLoopClosed == "Event loop is closed"

\* _shutdown_server(delay=3): run_coroutine_threadsafe hands graceful_exit
\* to the event loop; timer is "scheduled" from then on.  On a loop that
\* has ended the coroutine is queued and never run, or, if the loop was
\* closed, the call raises RuntimeError and measure_latency fails.
ShutdownServer ==
    /\ dev.pc = "shutdown"
    /\ \E closed \in {c \in BOOLEAN : c => dev.loop # "running"} :
         IF closed
         THEN dev' = [dev EXCEPT !.pc = "failed", !.error = MsgLoopClosed,
                                 !.report = NoReport]
         ELSE dev' = [dev EXCEPT !.pc = "return", !.timer = "scheduled"]
    /\ UNCHANGED <<mainVars, call>>

\* measure_latency returns the report.
ReturnStats ==
    /\ \/ dev.pc = "collected" /\ ~dev.rebootAfterMeasure
       \/ dev.pc = "return"
    /\ dev' = [dev EXCEPT !.pc = "done"]
    /\ UNCHANGED <<mainVars, call>>

\* graceful_exit on the running loop: the sleep of 3 seconds is over and
\* the coroutine raises GracefulExit.
GracefulExit ==
    /\ dev.loop = "running"
    /\ dev.timer = "scheduled"
    /\ dev' = [dev EXCEPT !.timer = "raised"]
    /\ UNCHANGED <<mainVars, call>>

\* super().run() returns: the serving loop of the base class has ended, for
\* a signal, for the GracefulExit raised on it or for any other reason.
\* The base class is not part of the sources, so the loop may end in any
\* state, whatever the executor thread is doing.
RunReturns ==
    /\ dev.loop = "running"
    /\ dev' = [dev EXCEPT !.loop = "exited"]
    /\ UNCHANGED <<mainVars, call>>

\* run after super().run() has returned: the reboot command, or nothing.
Reboot ==
    /\ dev.loop = "exited"
    /\ dev' = [dev EXCEPT !.loop = IF dev.rebootOnExit THEN "rebooted" ELSE "off"]
    /\ UNCHANGED <<mainVars, call>>

DeviceInit ==
    /\ MainInit
    /\ toolsPath /\ provider /\ fs = EmptyFs
    /\ call = NoCall
    /\ DevInit

DeviceNext ==
    \/ DevReceive
    \/ CreateTiModel
    \/ WarmupRun
    \/ MeasuredRun
    \/ MeanLatency
    \/ CollectStats
    \/ SetRebootOnExit
    \/ ShutdownServer
    \/ ReturnStats
    \/ GracefulExit
    \/ RunReturns
    \/ Reboot

DeviceSpec == DeviceInit /\ [][DeviceNext]_vars

\* ------------------------------------------------------------------ claims
Done(j) == SeqRange(steps[j])

\* Job j has executed the step.
Did(j, name) == \E i \in DOMAIN steps[j] : steps[j][i] = name

\* Position of the first occurrence of a step in a job's history (0: none).
Pos(j, name) ==
    IF Did(j, name)
    THEN CHOOSE i \in 1..Len(steps[j]) :
            /\ steps[j][i] = name
            /\ \A k \in 1..(i - 1) : steps[j][k] # name
    ELSE 0

\* Job j has executed step a, and step b not before it.
Before(j, a, b) ==
    \E i \in DOMAIN steps[j] :
        steps[j][i] = a /\ \A k \in 1..i : steps[j][k] # b

\* The names of the synthetic samples, and the files job j writes under
\* them.
FakeNames == {FakeName(i) : i \in 1..FakeSamples}

FakeFiles(j) == {File(n, j) : n \in FakeNames}

Count(j, name) == Cardinality({i \in 1..Len(steps[j]) : steps[j][i] = name})

IsParentStep(name) ==
    name \in {"reset", "persist", "calib", "spawn", "package", "return", "dispatch"}

ParentSteps(j) == SelectSeq(steps[j], IsParentStep)

IsPrefix(s, t) == Len(s) <= Len(t) /\ \A i \in 1..Len(s) : s[i] = t[i]

JobOrder(kind) ==
    <<"reset", "persist", "calib", "spawn", "package",
      IF kind = "measure" THEN "dispatch" ELSE "return">>

CalibrationErrors == {MsgNotZip, MsgBadZip, MsgNoDir}

WorkerErrors ==
    {MsgToolsPath, MsgNoProvider, MsgNoCalDir, MsgNoCalInput, MsgShape, MsgCompiler,
     MsgEOF, MsgTruncated}

LaterJobStarted(j) == \E k \in JobIds : k > j /\ steps[k] # <<>>

\* The names a job's calibration resolution writes into the directory.
CalNames(j) ==
    IF req[j].cal.kind = "none" THEN FakeNames
    ELSE SeqRange(req[j].cal.members)

\* C1: every job (a /compile request as well as a measure request) wipes and
\* recreates the working directory before it persists the model, so when
\* calibration resolution begins the calibration directory exists and holds
\* no file of an earlier job.
C1_WipedAtJobStart ==
    \A j \in JobIds :
        /\ "persist" \in Done(j) => steps[j][1] = "reset"
        /\ pc[j] = "calib" => fs.calDir /\ fs.cal = {}

\* C2: within one job the steps happen in the order reset, persist model,
\* calibration resolution, isolated compile, package, return or dispatch,
\* none is skipped, and after a failing step no later step executes: no
\* worker after a calibration failure; no archive, no return and no device
\* request after a compile failure.
C2_StepOrder ==
    \A j \in JobIds :
        /\ IsPrefix(ParentSteps(j), JobOrder(req[j].kind))
        /\ pc[j] = "done" => ParentSteps(j) = JobOrder(req[j].kind)
        /\ (pc[j] = "failed" /\ resp[j].reason \in CalibrationErrors)
              => "spawn" \notin Done(j) /\ wpc[j] = "none"
        /\ (pc[j] = "failed" /\ resp[j].reason \in WorkerErrors)
              => /\ Done(j) \cap {"package", "return", "dispatch"} = {}
                 /\ \A i \in 1..Len(devReq) : devReq[i].job # j

\* C3: when the isolated worker fails in any way, abrupt death of the child
\* process included, the job eventually returns a failure to its caller, and
\* a job that was submitted is eventually started.
C3_WorkerFailureReturns ==
    \A j \in JobIds :
        /\ (wres[j] \notin {"none", "ok"}) ~> (pc[j] = "failed")
        /\ (pc[j] = "queued") ~> (pc[j] # "queued")

\* C4: when the compile raises inside the worker, the job fails with an
\* internal-server error (500) whose reason is the worker's error text, and
\* the model file and the calibration files of the failed job are still in
\* the working directory.
C4_WorkerErrorLeavesFiles ==
    \A j \in JobIds :
        (pc[j] = "failed" /\ wres[j] \notin {"none", "ok"} /\ ~LaterJobStarted(j))
            => /\ resp[j].status = 500
               /\ resp[j].reason = wres[j]
               /\ resp[j].reason \in WorkerErrors
               /\ fs.model = {File(ModelName, j)}
               /\ \A n \in CalNames(j) : File(n, j) \in fs.cal

C4_Witness ==
    \E j \in JobIds :
        /\ pc[j] = "failed"
        /\ wres[j] = MsgCompiler
        /\ req[j].cal.kind = "zip"
        /\ File("a.pickle", j) \in fs.cal

\* C6: a job without calibration payload is compiled with accuracy tier
\* BASIC (0) and 1 iteration on synthetic data, the samples it generated
\* and no others; a job with a valid archive is compiled with tier
\* ADVANCED (1), 10 iterations and pre-batchnorm-fold, activation clipping,
\* weight clipping and bias calibration all true.  The settings a job is
\* compiled with are the options TICompiler.compile takes from the
\* configuration with as_cfg_dict.
C6_CalibrationTier ==
    \A j \in JobIds :
        pc[j] \in {"spawn", "apply"} =>
            LET options == AsCfgDict(cfg[j])
                On(key) == /\ key \in DOMAIN options
                           /\ options[key] = 1
            IN  /\ req[j].cal.kind = "none" =>
                      /\ cfg[j].accuracy_level = BASIC
                      /\ options["accuracy_level"] = BASIC
                      /\ options["advanced_options:calibration_iterations"] = 1
                      /\ Pickles(fs.cal) = FakeFiles(j)
                /\ req[j].cal.kind # "none" =>
                      /\ req[j].cal.kind = "zip" /\ req[j].cal.badAt = 0
                      /\ cfg[j].accuracy_level = ADVANCED
                      /\ options["accuracy_level"] = ADVANCED
                      /\ options["advanced_options:calibration_iterations"] = 10
                      /\ cfg[j].pre_batchnorm_fold
                      /\ On("advanced_options:pre_batchnorm_fold")
                      /\ On("advanced_options:activation_clipping")
                      /\ On("advanced_options:weight_clipping")
                      /\ On("advanced_options:bias_calibration")

\* The two ways C6 fails: a job without payload that is compiled on the
\* samples of an earlier job's archive next to its own, and a job with an
\* archive whose options have no entry for pre_batchnorm_fold.
C6_LeftoverSamples ==
    \A j \in JobIds :
        (pc[j] \in {"spawn", "apply"} /\ req[j].cal.kind = "none") =>
            Pickles(fs.cal) = FakeFiles(j)

C6_FoldReachesCompiler ==
    \A j \in JobIds :
        (pc[j] \in {"spawn", "apply"} /\ req[j].cal.kind = "zip") =>
            "advanced_options:pre_batchnorm_fold" \in DOMAIN AsCfgDict(cfg[j])

\* C7: the compiler session is opened only if the calibration directory
\* exists and holds at least one sample file; with zero sample files the
\* compile is refused with an error and nothing is fed through the compiler.
C7_SamplesBeforeSession ==
    \A j \in JobIds :
        /\ wpc[j] \in {"session", "feed"} =>
              fs.calDir /\ Cardinality(Pickles(fs.cal)) >= 1
        /\ (pc[j] = "apply" /\ "w_count" \in Done(j) /\ Pickles(fs.cal) = {}) =>
              /\ wres[j] = MsgNoCalInput
              /\ wpc[j] = "exit"
              /\ "w_session" \notin Done(j)
              /\ fed[j] = {}

C7_Witness ==
    \E j \in JobIds :
        /\ pc[j] = "failed" /\ resp[j].reason = MsgNoCalInput
        /\ fs.calDir /\ Pickles(fs.cal) = {}

\* C8 as stated: shape inference runs before the worker process is spawned,
\* and a shape-inference failure aborts the job with no worker process
\* having been created.
C8_ShapeInferenceBeforeSpawn ==
    \A j \in JobIds :
        /\ "w_shape" \in Done(j) =>
              ("spawn" \notin Done(j) \/ Pos(j, "w_shape") < Pos(j, "spawn"))
        /\ wres[j] = MsgShape => "spawn" \notin Done(j)

\* C8 amended: shape inference runs in place on the job's persisted model
\* file inside the isolated worker process, after the worker is spawned and
\* the samples are counted and before the compiler session is opened; a
\* shape-inference failure fails the job with no session opened, nothing fed
\* and no archive packaged.
C8_ShapeInferenceInWorker ==
    \A j \in JobIds :
        /\ wpc[j] = "shape" => fs.model = {File(ModelName, j)}
        /\ Did(j, "w_shape") =>
              /\ Before(j, "spawn", "w_count")
              /\ Before(j, "w_count", "w_shape")
        /\ Did(j, "w_session") => Before(j, "w_shape", "w_session")
        /\ wres[j] = MsgShape =>
              /\ Done(j) \cap {"w_session", "w_feed", "w_copy", "package"} = {}
              /\ fed[j] = {}
              /\ pc[j] \in {"apply", "failed"}
              /\ pc[j] = "failed" => resp[j].reason = MsgShape

C8_Witness ==
    \E j \in JobIds : pc[j] = "failed" /\ resp[j].reason = MsgShape

\* C9: with no toolchain path configured the server fails at startup: it
\* never serves, and no request fails because the path is missing.
C9_ToolsPathCheckedAtStartup ==
    ~toolsPath =>
        /\ server # "serving"
        /\ \A j \in JobIds : resp[j].reason # MsgToolsPath

\* C10 as stated: a supplied calibration payload that is no valid archive
\* fails the job with an error for the caller, nothing is extracted into the
\* calibration directory, the worker is never invoked and the job is not
\* retried.
InvalidArchive(cal) == cal.kind = "bytes" \/ (cal.kind = "zip" /\ cal.badAt > 0)

C10_InvalidArchiveRejected ==
    \A j \in JobIds :
        (InvalidArchive(req[j].cal) /\ "calib" \in Done(j)) =>
            /\ pc[j] = "failed"
            /\ resp[j].status = 500
            /\ resp[j].reason \in {MsgNotZip, MsgBadZip}
            /\ \A f \in fs.cal : f.job # j
            /\ "spawn" \notin Done(j) /\ wpc[j] = "none"
            /\ Count(j, "calib") = 1

\* C10 amended: a payload that fails the archive signature check fails the
\* job with the error "Calibration data must be a zip file", nothing is
\* extracted, the worker is never invoked and the job is not retried; a
\* payload that passes the check but fails during extraction fails the job
\* in the same way, except that the members extracted before the failure
\* stay in the calibration directory; the damaged member adds no file, an
\* empty file or a file with a leading part of its data, never a whole one.
C10_InvalidArchiveFails ==
    \A j \in JobIds :
        (InvalidArchive(req[j].cal) /\ "calib" \in Done(j)) =>
            /\ pc[j] = "failed"
            /\ resp[j].status = 500
            /\ "spawn" \notin Done(j) /\ wpc[j] = "none"
            /\ Count(j, "calib") = 1
            /\ req[j].cal.kind = "bytes" =>
                  /\ resp[j].reason = MsgNotZip
                  /\ \A f \in fs.cal : f.job # j
            /\ req[j].cal.kind = "zip" =>
                  /\ resp[j].reason = MsgBadZip
                  /\ {f.name : f \in {g \in fs.cal : g.job = j}}
                        \subseteq SeqRange(Prefix(req[j].cal.members, req[j].cal.badAt))
                  /\ File(req[j].cal.members[req[j].cal.badAt], j) \notin fs.cal
                  /\ ~LaterJobStarted(j) =>
                        \A i \in 1..(req[j].cal.badAt - 1) :
                            File(req[j].cal.members[i], j) \in fs.cal

C10_Witness ==
    \E j, k \in JobIds :
        /\ pc[j] = "failed" /\ req[j].cal.kind = "bytes"
        /\ pc[k] = "failed" /\ req[k].cal.kind = "zip" /\ req[k].cal.badAt > 0
        /\ File("a.pickle", k) \in fs.cal
        /\ PartFile("b.pickle", k) \in fs.cal

\* The three things a damaged member can leave behind.
C10_WitnessAbsent ==
    \E k \in JobIds :
        /\ pc[k] = "failed" /\ resp[k].reason = MsgBadZip
        /\ File("a.pickle", k) \in fs.cal
        /\ \A f \in fs.cal : f.name # "b.pickle"

C10_WitnessEmpty ==
    \E k \in JobIds :
        /\ pc[k] = "failed" /\ resp[k].reason = MsgBadZip
        /\ EmptyFile("b.pickle", k) \in fs.cal

\* The archives that came out of job j: the body of its 200 response to
\* /compile and the payloads it sent to the device server.
ReturnedArchives(j) ==
    {resp[j].body : k \in {j} \cap {i \in JobIds :
          req[i].kind = "compile" /\ pc[i] = "done" /\ resp[i].status = 200}}
    \cup {devReq[i].body : i \in {k \in 1..Len(devReq) : devReq[k].job = j}}

\* C11: the archive a successful job without calibration payload returns is
\* non-empty and holds exactly one model file, the job's own model, next to
\* the accelerator's side files, so the device server's load of the archive
\* takes the accelerator (directory) path and does not fail with the
\* ambiguous-artifact error.
C11_ArchiveHoldsOwnModel ==
    \A j \in JobIds : \A a \in ReturnedArchives(j) :
        req[j].cal = NoCal =>
            /\ a # {}
            /\ OnnxFiles(a) = {File(ModelName, j)}
            /\ a \ OnnxFiles(a) # {}
            /\ TIOnnxruntimeModel(Dir(a)).ok
            /\ TIOnnxruntimeModel(Dir(a)).providers = <<TIDL, CPU>>

\* C12: loading an artifact directory selects a model only when the
\* directory holds exactly one model file; with zero or with two or more
\* model files the load fails with an error and picks none; a path that is
\* neither a directory nor a file fails as well.
C12_ExactlyOneModelFile ==
    call.fn = "TIOnnxruntimeModel" =>
        LET p == call.arg
            r == call.out
            n == Cardinality({f \in p.files : f.name \in {"model.onnx", "extra.onnx"}})
        IN  /\ p.kind = "dir" =>
                  /\ r.ok <=> n = 1
                  /\ r.ok => /\ Cardinality(r.model) = 1
                             /\ r.model \subseteq p.files
                             /\ \A f \in r.model : f.name \in {"model.onnx", "extra.onnx"}
                  /\ ~r.ok => r.error = MsgAmbiguous /\ r.model = {}
            /\ p.kind = "missing" => ~r.ok /\ r.error = MsgBadPath /\ r.model = {}

C12_Witness ==
    /\ call.fn = "TIOnnxruntimeModel"
    /\ call.arg.kind = "dir"
    /\ {File(ModelName, 1), File("extra.onnx", 1)} \subseteq call.arg.files
    /\ ~call.out.ok

\* Exact comparison of floats: |x| / 2^e as a bit sequence, for e <= x.e
Scaled(x, e) == IF x.s = 0 THEN <<>> ELSE x.m \o Zeros(x.e - e)

\* |x - y| / 2^e
AbsDiff(x, y, e) ==
    LET a == Scaled(x, e)
        b == Scaled(y, e)
    IN  IF x.s * y.s < 0 THEN AddBits(a, b)
        ELSE IF Less(a, b) THEN SubBits(b, a) ELSE SubBits(a, b)

\* Half a unit in the last place of x, over 2^e
HalfUlp(x, e) == IF x.s = 0 THEN <<>> ELSE <<1>> \o Zeros(x.e - 1 - e)

\* |sum - total| <= ulp(part)/2 + ulp(sum)/2
WithinRounding(sum, total, part) ==
    LET e == Min(Min(sum.e, total.e), part.e) - 1
    IN  ~Less(AddBits(HalfUlp(part, e), HalfUlp(sum, e)), AbsDiff(sum, total, e))

\* C14 as stated: for any raw counters, with any number of subgraphs,
\* total_execution_ms == NPU_execution_ms + CPU_execution_ms and
\* total_execution_ms == total_ms - NPU_copy_input_ms - NPU_copy_output_ms.
C14_ExecutionIdentities ==
    (call.fn = "collect_ti_stats" /\ call.out.ok) =>
        LET r == call.out
        IN  /\ r.total_execution_ms = FAdd(r.NPU_execution_ms, r.CPU_execution_ms)
            /\ r.total_execution_ms =
                  FSub(FSub(r.total_ms, r.NPU_copy_input_ms), r.NPU_copy_output_ms)

\* C14 amended: total_execution_ms is the float total_ms - NPU_copy_input_ms
\* - NPU_copy_output_ms and CPU_execution_ms is the float total_execution_ms
\* - NPU_execution_ms; NPU_execution_ms + CPU_execution_ms equals
\* total_execution_ms up to the rounding of that subtraction and of the sum
\* (half a unit in the last place of each), and exactly when there is no
\* subgraph.
C14_ExecutionIdentitiesRounded ==
    (call.fn = "collect_ti_stats" /\ call.out.ok) =>
        LET r == call.out
            sum == FAdd(r.NPU_execution_ms, r.CPU_execution_ms)
        IN  /\ r.total_execution_ms =
                  FSub(FSub(r.total_ms, r.NPU_copy_input_ms), r.NPU_copy_output_ms)
            /\ r.CPU_execution_ms = FSub(r.total_execution_ms, r.NPU_execution_ms)
            /\ WithinRounding(sum, r.total_execution_ms, r.CPU_execution_ms)
            /\ (\A k \in DOMAIN call.arg : ~EndsWith(k, "proc_start")) =>
                  /\ r.NPU_execution_ms = FZero
                  /\ r.CPU_execution_ms = r.total_execution_ms
                  /\ sum = r.total_execution_ms

C14_Witness ==
    /\ call.fn = "collect_ti_stats"
    /\ call.out.ok
    /\ "ts:subgraph_0_proc_start" \in DOMAIN call.arg
    /\ FAdd(call.out.NPU_execution_ms, call.out.CPU_execution_ms)
          # call.out.total_execution_ms

\* The subgraph ids whose proc_start counter is present
IdsPresent(raw) == {id \in Ids : ("ts:subgraph_" \o id \o "_proc_start") \in DOMAIN raw}

\* Sum over the ids of end - start of a stage, in nanoseconds
RECURSIVE StageSum(_, _, _)
StageSum(raw, ids, stage) ==
    IF ids = {} THEN 0
    ELSE LET id == CHOOSE x \in ids : TRUE
         IN  raw["ts:subgraph_" \o id \o stage \o "_end"]
               - raw["ts:subgraph_" \o id \o stage \o "_start"]
               + StageSum(raw, ids \ {id}, stage)

\* C15: the subgraph ids are discovered from the keys present in the raw
\* counters, and NPU_execution_ms, NPU_copy_input_ms and NPU_copy_output_ms
\* each equal the sum over every discovered id, counted once, of end - start
\* of the stage, converted to milliseconds; with the ids 0 and 1 it is the
\* sum of both.
C15_SubgraphSums ==
    (call.fn = "collect_ti_stats" /\ call.out.ok) =>
        LET raw == call.arg
            r == call.out
            ids == IdsPresent(raw)
        IN  /\ r.NPU_execution_ms = FDiv(FromInt(StageSum(raw, ids, "_proc")), 1000000)
            /\ r.NPU_copy_input_ms = FDiv(FromInt(StageSum(raw, ids, "_copy_in")), 1000000)
            /\ r.NPU_copy_output_ms = FDiv(FromInt(StageSum(raw, ids, "_copy_out")), 1000000)

C15_Witness ==
    /\ call.fn = "collect_ti_stats"
    /\ call.out.ok
    /\ IdsPresent(call.arg) = {"0", "1"}
    /\ call.out.NPU_execution_ms = FDiv(FromInt(1787023 + 4000000), 1000000)

\* The durations of the calls after the first warmup ones
MeasuredDurations(d) == SubSeq(d.hist, d.warmup + 1, Len(d.hist))

\* C13: one latency computation performs exactly warmup + repeat*number
\* inference calls, one after another; the first warmup durations are
\* discarded, and the latency returned is the mean of the remaining
\* repeat*number durations divided by the batch size.
C13_MeanOfMeasuredCalls ==
    dev.pc # "off" =>
    /\ dev.calls = Len(dev.hist)
    /\ dev.calls <= dev.warmup + dev.repeat * dev.number
    /\ dev.pc = "stats" =>
          /\ dev.calls = dev.warmup + dev.repeat * dev.number
          /\ Len(MeasuredDurations(dev)) = dev.repeat * dev.number
          /\ dev.latency = FDiv(MeanOf[MeasuredDurations(dev)], dev.request.batch)

C13_Witness ==
    /\ dev.pc = "stats"
    /\ dev.warmup = 1
    /\ dev.repeat * dev.number >= 2
    /\ dev.request.batch = 2
    /\ dev.hist[1][2] - dev.hist[1][1] \in ColdDurationsUs
    /\ dev.hist[2][2] - dev.hist[2][1] # dev.hist[3][2] - dev.hist[3][1]

\* x < y for floats that are not negative
Below(x, y) ==
    LET e == Min(x.e, y.e) IN Less(Scaled(x, e), Scaled(y, e))

\* C16: every report of measure_latency has the keys latency and
\* ORT_overhead_ms, with ORT_overhead_ms equal to latency - total_ms; when
\* latency < total_ms the overhead is negative, never clamped to zero.
C16_OverheadNotClamped ==
    dev.pc = "done" =>
        /\ {"latency", "ORT_overhead_ms", "total_ms"} \subseteq DOMAIN dev.report
        /\ dev.report["latency"] = dev.latency
        /\ dev.report["ORT_overhead_ms"] =
              FSub(dev.report["latency"], dev.report["total_ms"])
        /\ Below(dev.report["latency"], dev.report["total_ms"]) =>
              dev.report["ORT_overhead_ms"].s = -1

C16_Witness ==
    /\ dev.pc = "done"
    /\ Below(dev.report["latency"], dev.report["total_ms"])
    /\ dev.report["ORT_overhead_ms"].s = -1

\* C17: a payload that is no archive is stored as a single model file and
\* loaded with the CPU provider only, and the response contains only the
\* key latency; for an archive the response is the full mapping.
C17_LatencyOnlyOnCpuPath ==
    dev.pc = "done" =>
        IF IsZipFile(dev.request.body)
        THEN DOMAIN dev.report = StatKeys \cup {"latency", "ORT_overhead_ms"}
        ELSE /\ dev.wd = Dir({File(ModelName, dev.served)})
             /\ dev.model.providers = <<CPU>>
             /\ DOMAIN dev.report = {"latency"}

\* C18: the directory reset is idempotent: run twice in a row, or once
\* after any job that left files behind, it yields the same tree, in which
\* the working directory exists and holds exactly an empty artifacts
\* directory and an empty calibration directory, with no file of an earlier
\* job.
C18_ResetIdempotent ==
    /\ CleanupFs(fs) = CleanFs
    /\ CleanupFs(CleanupFs(fs)) = CleanupFs(fs)
    /\ \A j \in JobIds :
          (pc[j] = "persist" /\ "reset" \in SeqRange(steps[j])) => fs = CleanFs

C18_Witness ==
    \E j, k \in JobIds :
       /\ pc[j] = "persist"
       /\ "reset" \in SeqRange(steps[j])
       /\ pc[k] = "done"
       /\ "package" \in SeqRange(steps[k])
       /\ fs = CleanFs

\* The calls of the generator into an empty directory
GeneratorCalled ==
    /\ call.fn = "generate_fake_calibration_data"
    /\ DOMAIN call.arg.dir = {}

C19_SampleFile(files, inputs, i) ==
    /\ FakeName(i) \in DOMAIN files
    /\ DOMAIN files[FakeName(i)] = {g.name : g \in inputs}
    /\ \A g \in inputs :
          LET t == files[FakeName(i)][g.name] IN
          /\ t.dtype = OnnxDtypeToNpDtype(g.elem_type)
          /\ Len(t.shape) = Len(g.shape)
          /\ \A k \in DOMAIN g.shape :
                t.shape[k] = IF g.shape[k].kind = "value"
                             THEN g.shape[k].value ELSE 0
          /\ Len(t.data) = Size(t.shape)
          /\ \A k \in DOMAIN t.data :
                t.data[k] = CASE g.elem_type = BOOL -> 1
                              [] g.elem_type = UINT8 /\ i > 255 -> i - 256 * (i \div 256)
                              [] OTHER -> i

C19_Witness ==
    /\ GeneratorCalled
    /\ call.arg.n = 2
    /\ Len(call.arg.inputs) = 2
    /\ call.out.files[FakeName(2)]["mask"].data = <<1, 1>>
    /\ call.out.files[FakeName(2)]["x"].data = <<2, 2, 2, 2, 2, 2>>

C19_WitnessOverflow ==
    /\ GeneratorCalled
    /\ call.arg.n = ManySamples
    /\ call.arg.numpy = "checks"
    /\ call.arg.inputs[1].elem_type = UINT8
    /\ call.out.error = MsgOverflow
    /\ FakeName(255) \in DOMAIN call.out.files
    /\ FakeName(256) \notin DOMAIN call.out.files

\* C20: for every calibration configuration the flattened option map has an
\* entry for each field (accuracy tier, quantization scale type, iteration
\* count, data-conversion mode and every boolean toggle, pre_batchnorm_fold
\* included), and each boolean is encoded as 0 for false and 1 for true.
C20_EveryFieldFlattened ==
    call.fn = "as_cfg_dict" =>
        \A f \in DOMAIN call.arg :
            \E k \in DOMAIN call.out :
               /\ EndsWith(k, f)
               /\ call.out[k] = IF f \in BoolFields
                                THEN (IF call.arg[f] THEN 1 ELSE 0)
                                ELSE call.arg[f]

\* t occurs in s
Contains(s, t) ==
    \E i \in 1..(Len(s) - Len(t) + 1) : SubSeq(s, i, i + Len(t) - 1) = t

\* A success status of HTTP: 2xx.
SuccessStatus(status) == status \in 200..299

\* C22, as stated: the compile client posts exactly one request per
\* invocation; on a success status it writes the response body to the
\* output path; on any other status it fails with an error carrying the
\* status code and the reason, writes no output file and does not send the
\* request again.
C22_SuccessStatusWritten ==
    call.fn = "compile_model.main" =>
        LET r == call.arg.answers[1] IN
        /\ call.out.posted = 1
        /\ IF SuccessStatus(r.status_code)
           THEN call.out.file = r.content /\ call.out.error = ""
           ELSE /\ call.out.file = call.arg.file
                /\ Contains(call.out.error, ToString(r.status_code))
                /\ Contains(call.out.error, r.reason)

\* C22, amended: the compile client posts exactly one request per
\* invocation; on status 200 it writes the body of the answer to that
\* request to the output path; on any other status, the other success
\* statuses included, it fails with an error carrying the status code and
\* the reason of that answer, leaves the output path as it was and does
\* not send the request again.
C22_OneRequest ==
    call.fn = "compile_model.main" =>
        LET r == call.arg.answers[1] IN
        /\ call.out.posted = 1
        /\ IF r.status_code = 200
           THEN call.out.file = r.content /\ call.out.error = ""
           ELSE /\ call.out.file = call.arg.file
                /\ Contains(call.out.error, ToString(r.status_code))
                /\ Contains(call.out.error, r.reason)

C22_Witness ==
    /\ call.fn = "compile_model.main"
    /\ call.arg.answers[1].status_code = 204
    /\ call.arg.answers[2].status_code = 200
    /\ call.arg.file = NoFile
    /\ call.out.file = NoFile
    /\ call.out.posted = 1
    /\ call.out.error # ""

\* C23: every failure of a job on the orchestration server (model bytes
\* that cannot be parsed or persisted, calibration resolution, worker,
\* packaging) reaches the caller as a server-side error response whose
\* reason carries the causing message, not the generic text of an
\* unhandled exception.
C23_ReasonCarriesCause ==
    \A j \in JobIds :
        pc[j] = "failed" =>
            /\ resp[j].status = 500
            /\ resp[j].reason # MsgUnhandled
            /\ resp[j].reason # ""

\* C24: when the CLI is run without a calibration directory, the temporary
\* directory it makes exists from its creation to the end of the compilation
\* and is gone when the run ends, whether the compilation returned or
\* failed; a calibration directory named by the user is handed to the
\* compiler as it is and is never removed.
C24_TempDirRemoved ==
    call.fn = "compile_onnx_model" =>
        LET t == call.out.trace
            last == t[Len(t)].dirs
        IN  IF call.arg.calibration_data_dir = ""
            THEN /\ call.out.calibration_dir = TmpDir
                 /\ \A i \in 1..Len(t) :
                        t[i].step \in {"mkdtemp", "generate", "init", "compile"}
                            => TmpDir \in t[i].dirs
                 /\ TmpDir \notin last
                 /\ last = call.arg.before
            ELSE /\ call.out.calibration_dir = UserDir
                 /\ \A i \in 1..Len(t) :
                        /\ t[i].dirs = call.arg.before
                        /\ t[i].step \notin {"mkdtemp", "cleanup", "finalize"}

\* C25: in one compile the sample files of the calibration directory are
\* fed through the compiler session one per step, none twice; while the
\* pass runs no more files have been fed than calibration_frames says, and
\* when the compile returns every sample file has been fed exactly once and
\* calibration_frames is the number of files fed.
C25_EverySampleOnce ==
    \A j \in JobIds :
        /\ wpc[j] = "feed" =>
              /\ fed[j] \subseteq Pickles(fs.cal)
              /\ Count(j, "w_feed") = Cardinality(fed[j])
              /\ Cardinality(fed[j]) <= frames[j]
        /\ (wpc[j] = "exit" /\ wres[j] = "ok") =>
              /\ fed[j] = Pickles(fs.cal)
              /\ Count(j, "w_feed") = Cardinality(fed[j])
              /\ frames[j] = Cardinality(fed[j])

C25_Witness ==
    \E j \in JobIds :
        /\ wpc[j] = "exit"
        /\ wres[j] = "ok"
        /\ req[j].cal = Zip(<<"a.pickle", "b.pickle">>, 0)
        /\ frames[j] = 2
        /\ Count(j, "w_feed") = 2

\* the flattened form the option maps are to give an optional name list
Flat(opt) ==
    IF ~opt.some \/ Len(opt.value) = 0 THEN ""
    ELSE IF Len(opt.value) = 1 THEN opt.value[1]
    ELSE opt.value[1] \o "," \o opt.value[2]

\* C26: in the option maps of the model and precision configurations an
\* absent name list and an empty one both become the empty string and a
\* list of names becomes the names joined by commas in their order; an
\* absent mixed-precision factor becomes -1 and a present one is passed
\* through unchanged.
C26_OptionalFieldsFlattened ==
    /\ call.fn = "TIModelCfg.as_cfg_dict" =>
          /\ call.out["deny_list:layer_type"] = Flat(call.arg.deny_list_layer_type)
          /\ call.out["deny_list:layer_name"] = Flat(call.arg.deny_list_layer_name)
          /\ call.out["allow_list:layer_name"] = Flat(call.arg.allow_list_layer_name)
    /\ call.fn = "TIPrecisionCfg.as_cfg_dict" =>
          /\ call.out["advanced_options:output_feature_16bit_names_list"]
                = Flat(call.arg.output_feature_16bit_names_list)
          /\ call.out["advanced_options:params_16bit_names_list"]
                = Flat(call.arg.params_16bit_names_list)
          /\ call.out["advanced_options:mixed_precision_factor"]
                = IF call.arg.mixed_precision_factor.some
                  THEN call.arg.mixed_precision_factor.value ELSE -1

C26_Witness ==
    /\ call.fn = "TIPrecisionCfg.as_cfg_dict"
    /\ call.arg.output_feature_16bit_names_list = Present(<<"relu2", "conv1">>)
    /\ call.out["advanced_options:output_feature_16bit_names_list"] = "relu2,conv1"
    /\ call.arg.params_16bit_names_list = Absent
    /\ call.out["advanced_options:params_16bit_names_list"] = ""
    /\ call.arg.mixed_precision_factor = Present(0)
    /\ call.out["advanced_options:mixed_precision_factor"] = 0

\* The output path check of the compiler on its own: with force_overwrite a
\* directory is emptied and a missing path becomes an empty directory; a
\* path that is a file is an error and stays a file.
OutputDirPrepared ==
    call.fn = "TICompiler.compile.output_dir" =>
        IF call.arg.kind = "file"
        THEN call.out.error # "" /\ call.out.kind = "file"
        ELSE call.arg.force_overwrite =>
                /\ call.out.error = ""
                /\ call.out.kind = "dir"
                /\ call.out.files = {}

\* job j has packaged its archive in this step
Packaged(j) == pc[j] = "archive" /\ pc'[j] \in {"respond", "dispatch"}

\* C27: a worker that has passed the output path check of the compiler
\* goes on with an existing and empty output directory, and the archive a
\* job packages holds only files that job produced, whether or not the job
\* reset the working directory.
C27_Step ==
    \A j \in JobIds :
        /\ (wpc[j] = "outdir" /\ wpc'[j] = "count") =>
              fs'.artDir /\ fs'.art = {}
        /\ Packaged(j) =>
              /\ fs'.zip
              /\ fs'.zipFiles # {}
              /\ \A f \in fs'.zipFiles : f.job = j

C27_FreshOutputDir == [][C27_Step]_vars

C27_Witness ==
    \E j \in JobIds :
        /\ req[j].kind = "compile"
        /\ pc[j] = "respond"
        /\ Count(j, "reset") = 0
        /\ Count(j, "package") = 1
        /\ \E k \in JobIds \ {j} : pc[k] = "done" /\ Count(k, "package") = 1
        /\ \A f \in fs.zipFiles : f.job = j

\* the payloads job j has sent to the device server
SentBy(j) == {i \in 1..Len(devReq) : devReq[i].job = j}

\* C28: a measure job compiles with the synthetic calibration (two samples
\* of its own, BASIC tier, one iteration) whatever earlier jobs left
\* behind; it contacts the device server at most once, only after it has
\* packaged its archive, with exactly the files of that archive; its answer
\* is the report of the device.  A /compile job never contacts the device.
C28_MeasureJob ==
    \A j \in JobIds :
        LET sent == SentBy(j)
            spawned == Count(j, "spawn") >= 1
        IN
        /\ Cardinality(sent) = Count(j, "dispatch")
        /\ Cardinality(sent) <= 1
        /\ sent # {} => req[j].kind = "measure"
        /\ req[j].kind = "measure" =>
              /\ spawned => cfg[j] = TICalibrationCfg(BASIC, 1)
              /\ (spawned /\ j \in Running) =>
                    Pickles(fs.cal) = FakeFiles(j)
              /\ Count(j, "w_shape") >= 1 => frames[j] = 2
              /\ fed[j] \subseteq FakeFiles(j)
              /\ \A i \in sent :
                    /\ Count(j, "package") = 1
                    /\ devReq[i].body = {File(SideFile, j), File(ModelName, j)}
              /\ pc[j] = "done" =>
                    /\ Cardinality(sent) = 1
                    /\ resp[j] = [status |-> 200, reason |-> "OK",
                                  body |-> {File("report", j)}]

C28_Witness ==
    \E j \in JobIds :
        /\ req[j].kind = "measure"
        /\ pc[j] = "done"
        /\ Cardinality(SentBy(j)) = 1
        /\ frames[j] = 2
        /\ \E k \in JobIds \ {j} :
              /\ req[k].cal = Zip(<<"a.pickle", "b.pickle">>, 0)
              /\ pc[k] = "done"
              /\ frames[k] >= 2
        /\ Pickles(fs.cal) = {File(FakeName(i), j) : i \in 1..2}

\* the number of model files a payload puts into the working directory
OnnxMembers(body) ==
    IF IsZipFile(body)
    THEN Cardinality({n \in SeqRange(body.members) : n \in OnnxNames})
    ELSE 1

\* C29: once create_ti_model has run for a measurement, the working
\* directory of the device server holds only files of that measurement's
\* payload, the model loaded is a file of that payload, and the
\* one-model-file check fails only when the payload itself does not hold
\* exactly one model file.
C29_OnlyCurrentPayload ==
    dev.pc \in {"run", "stats", "collected", "shutdown", "return", "done",
                "failed"} =>
        /\ dev.wd.kind = "dir"
        /\ \A f \in dev.wd.files : f.job = dev.served
        /\ dev.model.ok => \A f \in dev.model.model : f.job = dev.served
        /\ dev.error = MsgAmbiguous => OnnxMembers(dev.request.body) # 1

C29_Witness ==
    /\ dev.served = 2
    /\ dev.pc = "run"
    /\ dev.model.ok
    /\ dev.request.body = Zip(<<ModelName, SideFile>>, 0)
    /\ dev.wd.files = {File(ModelName, 2), File(SideFile, 2)}

====
